---- MODULE Spec2Model ----
(***************************************************************************)
(* A model of the health-plan-agent backend: the persistence adapter       *)
(* (app/services/workout_plan_service.py), the integrated planner behind   *)
(* POST /api/v1/plans/generate (integrated_workout_planner.py and          *)
(* railway_main.py), the five-stage orchestrator                           *)
(* (src/agents/orchestrator_agent_fixed.py and the agents it calls) and    *)
(* the plan identifier it derives.                                         *)
(***************************************************************************)
EXTENDS Integers, Sequences, FiniteSets, TLC

VARIABLES
    table,      \* the workout_plans table: a sequence of rows in insertion order
    nextId,     \* the id the table gives to the next inserted row
    wpc,        \* per writer: where its store_plan call stands
    warg,       \* per writer: the plan_record its store_plan call has built
    wsaw,       \* per writer: whether another store_plan call for the same
                \* plan_id was in flight when this one began (history)
    lastOp,     \* the adapter call that completed last, with its result
    now,        \* the wall clock, in seconds
    planner,    \* app.state.integrated_planner: "ready" or "none"
    supabase,   \* whether the planner's Supabase client was created
    files,      \* the local backup files: file name -> the plan written
    hpc,        \* per request: where the /plans/generate handler stands
    hreq,       \* per request: the request body
    hllm,       \* per request: the text the LLM call returned (history)
    hclk,       \* per request: the clock reading its plan was stamped with
    hplan,      \* per request: the handler's workout_plan
    hrow,       \* per request: id of the row its insert created, 0 if none
    hresp,      \* per request: the HTTP response
    opc,        \* per generation call: idle, between stages, in a stage,
                \* done or failed
    ostep,      \* per generation call: the number of the phase it is at
    oreq,       \* per generation call: the request
    olog,       \* per generation call: the stage calls, returns and raises
    ores,       \* per generation call: research_findings
    ofit,       \* per generation call: fitness_plan
    onut,       \* per generation call: nutrition_plan
    omot,       \* per generation call: motivation_plan
    osafe,      \* per generation call: safety_report
    odoc,       \* per generation call: the plan returned
    dresp,      \* the answer of the read request that was served, if any
    uplan,      \* the SQL workout_plans table: per user id, the user's rows
    manager,    \* WORKOUT_PLAN_MANAGER_AVAILABLE
    gpc,        \* per regeneration request: where the handler stands
    greq,       \* per regeneration request: the user id in its path
    gold,       \* per regeneration request: the user's rows when it
                \* arrived (history)
    gresp,      \* per regeneration request: the HTTP status of its answer
    authcfg,    \* the auth service's settings and whether its client works
    issued,     \* the access tokens sign-in has returned so far (history)
    aresp       \* the answer of the auth request that was served last

storeVars == <<wpc, warg, wsaw, lastOp>>

genVars == <<now, planner, supabase, files, hpc, hreq, hllm, hclk, hplan, hrow, hresp>>

orchVars == <<opc, ostep, oreq, olog, ores, ofit, onut, omot, osafe, odoc>>

regenVars == <<uplan, manager, gpc, greq, gold, gresp>>

authVars == <<authcfg, issued, aresp>>

\* what the persistence adapter never touches
outsideAdapter == <<genVars, orchVars, dresp, regenVars, authVars>>

\* what the plan generation handler never touches
outsideHandler == <<storeVars, orchVars, dresp, regenVars, authVars>>

\* what the orchestrator never touches
outsideOrchestrator == <<table, nextId, storeVars, genVars, dresp, regenVars, authVars>>

\* what the read endpoints never touch
outsideReads == <<table, nextId, storeVars, genVars, orchVars, regenVars, authVars>>

\* what the regeneration handler never touches
outsideRegen == <<table, nextId, storeVars, genVars, orchVars, dresp, authVars>>

\* what the auth routes never touch
outsideAuth == <<table, nextId, storeVars, genVars, orchVars, dresp, regenVars>>

vars == <<table, nextId, wpc, warg, wsaw, lastOp,
          now, planner, supabase, files, hpc, hreq, hllm, hclk, hplan, hrow,
          hresp, opc, ostep, oreq, olog, ores, ofit, onut, omot, osafe, odoc,
          dresp, uplan, manager, gpc, greq, gold, gresp, authcfg, issued, aresp>>

----------------------------------------------------------------------------
(* Bounds of the model *)

\* rows ever inserted into the table
MaxRows == 2

\* seconds the clock can advance
MaxClock == 1

----------------------------------------------------------------------------
(* The persistence adapter: WorkoutPlanService *)

PlanIds == {"p1", "p2"}

\* plan documents a caller hands to store_plan (mappings from key to entries)
PlanDatas == { [overview |-> <<"A">>], [overview |-> <<"B">>] }

Writers == {"w1", "w2"}

\* the value Python's None
None == [none |-> TRUE]

\* no read request was served
ReadIdle == dresp = None

NoOp == [op |-> "none", pid |-> "", ok |-> FALSE, reached |-> FALSE,
         data |-> None, result |-> None, stored |-> None, overlap |-> FALSE]

\* .eq("plan_id", plan_id).eq("is_active", True)
ActiveRowsOf(t, pid) ==
    LET keep(r) == r.plan_id = pid /\ r.is_active IN SelectSeq(t, keep)

\* .eq("plan_id", plan_id)
RowsOf(t, pid) ==
    LET keep(r) == r.plan_id = pid IN SelectSeq(t, keep)

\* the plan_record store_plan builds before it inserts
PlanRecord(pid, data) ==
    [plan_id |-> pid, plan_data |-> data, metadata |-> << >>, is_active |-> TRUE]

\* table.insert(plan_record): the table appends the row and gives it an id;
\* no uniqueness of plan_id is checked
InsertRow(t, id, rec) ==
    Append(t, [id |-> id, plan_id |-> rec.plan_id, plan_data |-> rec.plan_data,
               metadata |-> rec.metadata, is_active |-> rec.is_active])

\* whether another writer's store_plan for this plan_id is in flight
OthersInFlight(w, pid) ==
    \E v \in Writers \ {w} : wpc[v] = "inserting" /\ warg[v].plan_id = pid

\* store_plan, first half: the record is built, the insert is not yet sent
StoreBegin(w, pid, data) ==
    /\ wpc[w] = "idle"
    /\ wpc' = [wpc EXCEPT ![w] = "inserting"]
    /\ warg' = [warg EXCEPT ![w] = PlanRecord(pid, data)]
    /\ wsaw' = [wsaw EXCEPT ![w] = OthersInFlight(w, pid)]
    /\ UNCHANGED outsideAdapter
    /\ UNCHANGED <<table, nextId, lastOp>>

\* a writer's call returns: its locals are gone
NoRecord == PlanRecord("", None)

Return(w) ==
    /\ warg' = [warg EXCEPT ![w] = NoRecord]
    /\ wsaw' = [wsaw EXCEPT ![w] = FALSE]

\* (mutant) store_plan that looks the plan up first and rejects a second
\* record with the same plan_id
StoreInsertChecked(w) ==
    /\ wpc[w] = "inserting"
    /\ nextId <= MaxRows
    /\ wpc' = [wpc EXCEPT ![w] = "idle"]
    /\ IF ActiveRowsOf(table, warg[w].plan_id) = <<>>
       THEN /\ table' = InsertRow(table, nextId, warg[w])
            /\ nextId' = nextId + 1
            /\ lastOp' = [NoOp EXCEPT !.op = "store", !.ok = TRUE,
                                      !.pid = warg[w].plan_id,
                                      !.reached = TRUE,
                                      !.data = warg[w].plan_data]
       ELSE /\ UNCHANGED <<table, nextId>>
            /\ lastOp' = [NoOp EXCEPT !.op = "store",
                                      !.pid = warg[w].plan_id,
                                      !.reached = TRUE,
                                      !.data = warg[w].plan_data]
    /\ Return(w)
    /\ UNCHANGED outsideAdapter

\* store_plan, second half: the insert reaches the table and returns the row
StoreInsert(w) ==
    /\ wpc[w] = "inserting"
    /\ nextId <= MaxRows
    /\ table' = InsertRow(table, nextId, warg[w])
    /\ nextId' = nextId + 1
    /\ wpc' = [wpc EXCEPT ![w] = "idle"]
    /\ lastOp' = [NoOp EXCEPT !.op = "store", !.pid = warg[w].plan_id,
                              !.ok = TRUE, !.reached = TRUE,
                              !.data = warg[w].plan_data,
                              !.overlap = wsaw[w] \/
                                  OthersInFlight(w, warg[w].plan_id)]
    /\ Return(w)
    /\ UNCHANGED outsideAdapter

\* store_plan, second half, store unreachable: the client raises and
\* store_plan raises "Failed to store plan"
StoreFail(w) ==
    /\ wpc[w] = "inserting"
    /\ wpc' = [wpc EXCEPT ![w] = "idle"]
    /\ lastOp' = [NoOp EXCEPT !.op = "store", !.pid = warg[w].plan_id,
                              !.data = warg[w].plan_data]
    /\ Return(w)
    /\ UNCHANGED outsideAdapter
    /\ UNCHANGED <<table, nextId>>

\* what the get_plan that follows a successful store_plan of the same id,
\* with no adapter call in between, is expected to return
JustStored(pid) ==
    IF lastOp.op = "store" /\ lastOp.ok /\ lastOp.pid = pid
    THEN lastOp.data ELSE None

\* get_plan: result.data[0]["plan_data"] of the active rows with this id; the
\* query states no order, so any of the matching rows may come first
GetPlan(pid) ==
    /\ \E i \in 1..Len(table) :
          /\ table[i].plan_id = pid /\ table[i].is_active
          /\ lastOp' = [NoOp EXCEPT !.op = "get", !.pid = pid, !.ok = TRUE,
                                    !.reached = TRUE,
                                    !.result = table[i].plan_data,
                                    !.stored = JustStored(pid)]
    /\ UNCHANGED outsideAdapter
    /\ UNCHANGED <<table, nextId, wpc, warg, wsaw>>

\* get_plan when no active row has this id, or the store is unreachable
\* (the exception is swallowed): None
GetPlanNone(pid, reached) ==
    /\ reached => ActiveRowsOf(table, pid) = <<>>
    /\ lastOp' = [NoOp EXCEPT !.op = "get", !.pid = pid, !.reached = reached,
                              !.stored = JustStored(pid)]
    /\ UNCHANGED outsideAdapter
    /\ UNCHANGED <<table, nextId, wpc, warg, wsaw>>

\* get_all_plans: the active rows, newest first, folded into a dict, so of
\* two active rows with one plan_id the older one is the entry that stays
GetAllPlansResult(t) ==
    LET act == { t[i].plan_id : i \in { j \in 1..Len(t) : t[j].is_active } }
    IN  [pid \in act |-> ActiveRowsOf(t, pid)[1].plan_data]

\* (mutant) a deactivation that removes the rows instead of flagging them
DeactivateRowsByDelete(t, pid) ==
    LET keep(r) == r.plan_id # pid IN SelectSeq(t, keep)

\* update({"is_active": False}).eq("plan_id", plan_id): every row with this
\* id, active or not, is set inactive; nothing else of a row changes
DeactivateRows(t, pid) ==
    [i \in 1..Len(t) |->
        IF t[i].plan_id = pid THEN [t[i] EXCEPT !.is_active = FALSE] ELSE t[i]]

\* deactivate_plan: True when the update returned rows
DeactivatePlan(pid) ==
    /\ table' = DeactivateRows(table, pid)
    /\ lastOp' = [NoOp EXCEPT !.op = "deactivate", !.pid = pid,
                              !.reached = TRUE,
                              !.ok = (RowsOf(table, pid) # <<>>)]
    /\ UNCHANGED outsideAdapter
    /\ UNCHANGED <<nextId, wpc, warg, wsaw>>

\* deactivate_plan, store unreachable: the exception is swallowed, False
DeactivateFail(pid) ==
    /\ lastOp' = [NoOp EXCEPT !.op = "deactivate", !.pid = pid]
    /\ UNCHANGED outsideAdapter
    /\ UNCHANGED <<table, nextId, wpc, warg, wsaw>>

\* update({"plan_data": ...}).eq("plan_id", plan_id)
UpdateRows(t, pid, data) ==
    [i \in 1..Len(t) |->
        IF t[i].plan_id = pid THEN [t[i] EXCEPT !.plan_data = data] ELSE t[i]]

\* update_plan: plan_data is overwritten in place in every row with this id
UpdatePlan(pid, data) ==
    /\ RowsOf(table, pid) # <<>>
    /\ table' = UpdateRows(table, pid, data)
    /\ lastOp' = [NoOp EXCEPT !.op = "update", !.pid = pid, !.ok = TRUE,
                              !.reached = TRUE, !.data = data]
    /\ UNCHANGED outsideAdapter
    /\ UNCHANGED <<nextId, wpc, warg, wsaw>>

\* delete_plan: every row with this id is removed
DeletePlan(pid) ==
    /\ RowsOf(table, pid) # <<>>
    /\ table' = LET keep(r) == r.plan_id # pid IN SelectSeq(table, keep)
    /\ lastOp' = [NoOp EXCEPT !.op = "delete", !.pid = pid, !.ok = TRUE,
                              !.reached = TRUE]
    /\ UNCHANGED outsideAdapter
    /\ UNCHANGED <<nextId, wpc, warg, wsaw>>

TableInit ==
    /\ table = <<>>
    /\ nextId = 1

StoreInit ==
    /\ wpc = [w \in Writers |-> "idle"]
    /\ warg = [w \in Writers |-> NoRecord]
    /\ wsaw = [w \in Writers |-> FALSE]
    /\ lastOp = NoOp

StoreNext ==
    \/ \E w \in Writers, pid \in PlanIds, data \in PlanDatas :
          StoreBegin(w, pid, data)
    \/ \E w \in Writers : StoreInsert(w)
    \/ \E w \in Writers : StoreFail(w)
    \/ \E pid \in PlanIds : GetPlan(pid)
    \/ \E pid \in PlanIds, reached \in BOOLEAN : GetPlanNone(pid, reached)
    \/ \E pid \in PlanIds : DeactivatePlan(pid)
    \/ \E pid \in PlanIds : DeactivateFail(pid)
    \/ \E pid \in PlanIds, data \in PlanDatas : UpdatePlan(pid, data)
    \/ \E pid \in PlanIds : DeletePlan(pid)

----------------------------------------------------------------------------
(* The integrated planner and the POST /api/v1/plans/generate handler *)

\* the requests to POST /api/v1/plans/generate that may be served at once
Requests == {"r1", "r2"}

\* request bodies; the planner only reads user_id, the rest goes into the prompt
Bodies ==
    { [user_id |-> u, population |-> "muscle_building",
       goals |-> <<"hypertrophy", "strength_gain", "muscle_mass">>] :
         u \in {"test_user_123", "anonymous_user"} }

NoBody == [user_id |-> "", population |-> "", goals |-> <<>>]

\* The text of an LLM reply, as a sequence of tokens: an opening brace, a
\* closing brace, prose, or one "key": value member of a JSON object (a value
\* is the list of its entries).
LBrace == [t |-> "{", key |-> "", val |-> <<>>]

RBrace == [t |-> "}", key |-> "", val |-> <<>>]

Prose == [t |-> "text", key |-> "", val |-> <<>>]

Member(k, v) == [t |-> "member", key |-> k, val |-> v]

\* the reply the system prompt asks for
FullReply ==
    << LBrace,
       Member("overview", <<"Brief description of the plan">>),
       Member("weekly_split", <<"Mon: Focus", "Tue: Focus", "Wed: Focus",
                                "Thu: Focus", "Fri: Focus", "Sat: Focus",
                                "Sun: Rest">>),
       Member("global_rules", <<"Effort", "Rest">>),
       Member("days", <<"Day Name">>),
       Member("conditioning_and_recovery", <<"Mobility">>),
       Member("nutrition", <<"goal", "calories", "protein">>),
       Member("execution_checklist", <<"Track loads">>),
       RBrace >>

\* a reply that wraps a shorter JSON object in prose
ShortReply ==
    << Prose, LBrace,
       Member("overview", <<"Brief description of the plan">>),
       Member("weekly_split", <<"Mon: Push", "Wed: Pull", "Fri: Legs">>),
       Member("days", <<"Push", "Pull", "Legs">>),
       RBrace, Prose >>

\* a reply with no JSON in it
ProseReply == << Prose >>

\* a reply whose braces do not enclose a JSON object
BrokenReply == << LBrace, Member("overview", <<"Brief">>), Prose, RBrace >>

Replies == { FullReply, ShortReply, ProseReply, BrokenReply }

\* (mutant) the 1-based position of the first opening brace
FindOpenOneBased(c) ==
    LET at == { i \in 1..Len(c) : c[i] = LBrace }
    IN  IF at = {} THEN -1
        ELSE CHOOSE i \in at : \A j \in at : i <= j

\* content.find('{'): the 0-based index of the first opening brace, -1 if none
FindOpen(c) ==
    LET at == { i \in 1..Len(c) : c[i] = LBrace }
    IN  IF at = {} THEN -1
        ELSE (CHOOSE i \in at : \A j \in at : i <= j) - 1

\* content.rfind('}'): the 0-based index of the last closing brace, -1 if none
RFindClose(c) ==
    LET at == { i \in 1..Len(c) : c[i] = RBrace }
    IN  IF at = {} THEN -1
        ELSE (CHOOSE i \in at : \A j \in at : i >= j) - 1

\* the keys of a Python dict that json.dumps accepts: a str, or an int
StrKey(s) == [kind |-> "str", text |-> s]

IntKey(n) == [kind |-> "int", text |-> ToString(n)]

\* json.dumps of a dict, given as its (key, value) entries in order: every
\* key is written as a JSON string, an int key as its digits
DumpsText(entries) ==
    << LBrace >>
    \o [i \in 1..Len(entries) |-> Member(entries[i].key.text, entries[i].val)]
    \o << RBrace >>

\* (mutant) the slice without the "+ 1" of line 167
SliceShort(c, start, end) == SubSeq(c, start + 1, end - 1)

\* content[start_idx:end_idx]
Slice(c, start, end) == SubSeq(c, start + 1, end)

\* whether json.loads accepts the text as an object
IsJsonObject(txt) ==
    /\ Len(txt) >= 2
    /\ txt[1] = LBrace
    /\ txt[Len(txt)] = RBrace
    /\ \A i \in 2..(Len(txt) - 1) : txt[i].t = "member"

\* json.loads of an object: key -> value, the last member of a key wins
JsonLoads(txt) ==
    LET keys == { txt[i].key : i \in 2..(Len(txt) - 1) }
        last(k) == CHOOSE i \in 2..(Len(txt) - 1) :
                      /\ txt[i].key = k
                      /\ \A j \in 2..(Len(txt) - 1) : txt[j].key = k => j <= i
    IN  [k \in keys |-> txt[last(k)].val]

\* lines 166-180: "ok" with the parsed mapping, or the exception raised
ExtractPlan(c) ==
    LET start_idx == FindOpen(c)
        end_idx == RFindClose(c) + 1
    IN  IF start_idx # -1 /\ end_idx # 0
        THEN IF IsJsonObject(Slice(c, start_idx, end_idx))
             THEN [ok |-> TRUE, plan |-> JsonLoads(Slice(c, start_idx, end_idx)),
                   error |-> ""]
             ELSE [ok |-> FALSE, plan |-> None, error |-> "JSONDecodeError"]
        ELSE [ok |-> FALSE, plan |-> None, error |-> "ValueError"]

\* datetime.now().strftime('%Y%m%d_%H%M%S'): one stamp per second
Stamp(t) == ToString(t)

\* d[k] = v on a mapping
Put(d, k, v) == [x \in DOMAIN d \cup {k} |-> IF x = k THEN v ELSE d[x]]

\* (mutant) the plan keeps the metadata of another request that is being
\* served, as if the handler's workout_plan lived on the shared planner
WorkoutPlanShared(r, parsed, t) ==
    LET busy == { q \in Requests \ {r} : hplan[q] # None }
        q == CHOOSE q \in busy : TRUE
        mine == Put(Put(Put(Put(Put(parsed,
                    "plan_id", <<"integrated_workout_" \o Stamp(t)>>),
                    "generation_method", <<"Integrated_OpenAI_Supabase">>),
                    "user_id", <<hreq[r].user_id>>),
                    "created_at", <<Stamp(t)>>),
                    "status", <<"active">>)
    IN  IF busy = {} THEN mine ELSE Put(mine, "user_id", hplan[q]["user_id"])

\* lines 171-175 and 53-55: the parsed plan with its metadata
WorkoutPlan(r, parsed, t) ==
    Put(Put(Put(Put(Put(parsed,
        "plan_id", <<"integrated_workout_" \o Stamp(t)>>),
        "generation_method", <<"Integrated_OpenAI_Supabase">>),
        "user_id", <<hreq[r].user_id>>),
        "created_at", <<Stamp(t)>>),
        "status", <<"active">>)

\* json.dumps(workout_plan): the plan as JSON text
JsonDumps(plan) == [json |-> plan]

\* isinstance(value, str) of a value that is a mapping or JSON text
IsJsonText(value) == "json" \in DOMAIN value

\* _store_plan_in_supabase, lines 198-216: the row sent to the table
SupabaseData(plan) ==
    [plan_id |-> plan["plan_id"][1], user_id |-> plan["user_id"][1],
     generation_method |-> plan["generation_method"][1],
     plan_data |-> JsonDumps(plan)]

\* (mutant) a backup that is written to the catalog's path
BackupNameCatalog(plan) == "app/data/workout_plans.json"

\* _save_plan_locally, line 239
BackupName(plan) == "backup_" \o plan["plan_id"][1] \o ".json"

NoResponse == [status |-> 0, cause |-> "", plan_id |-> "", database_id |-> "",
               user_id |-> "", plan |-> None]

\* lines 150-154: any exception becomes HTTP 500
Error500(cause) == [NoResponse EXCEPT !.status = 500, !.cause = cause]

\* lines 139-148
Ok200(r, plan) ==
    [NoResponse EXCEPT !.status = 200,
        !.plan_id = plan["plan_id"][1],
        !.database_id = IF "database_id" \in DOMAIN plan
                        THEN plan["database_id"][1] ELSE "",
        !.user_id = hreq[r].user_id,
        !.plan = plan]

\* the clock advances
Tick ==
    /\ now < MaxClock
    /\ now' = now + 1
    /\ UNCHANGED outsideHandler
    /\ UNCHANGED <<table, nextId, planner, supabase, files,
                   hpc, hreq, hllm, hclk, hplan, hrow, hresp>>

\* lines 98-105: a request arrives while no planner was initialised; the 503
\* raised inside the try block is caught by "except Exception" and re-raised
\* as a 500
ReceiveNoPlanner(r, body) ==
    /\ hpc[r] = "idle"
    /\ planner = "none"
    /\ hreq' = [hreq EXCEPT ![r] = body]
    /\ hresp' = [hresp EXCEPT ![r] = Error500("503: Integrated planner not available")]
    /\ hpc' = [hpc EXCEPT ![r] = "done"]
    /\ UNCHANGED outsideHandler
    /\ UNCHANGED <<table, nextId, now, planner, supabase, files, hllm, hclk, hplan, hrow>>

\* lines 107-133 and 83-87: the request is unpacked and the LLM call is sent
Receive(r, body) ==
    /\ hpc[r] = "idle"
    /\ planner = "ready"
    /\ hreq' = [hreq EXCEPT ![r] = body]
    /\ hpc' = [hpc EXCEPT ![r] = "generating"]
    /\ UNCHANGED outsideHandler
    /\ UNCHANGED <<table, nextId, now, planner, supabase, files, hllm, hclk, hplan, hrow, hresp>>

\* lines 187-189: the LLM call raises; the exception reaches the handler
LLMRaises(r) ==
    /\ hpc[r] = "generating"
    /\ hresp' = [hresp EXCEPT ![r] = Error500("LLM call failed")]
    /\ hpc' = [hpc EXCEPT ![r] = "done"]
    /\ UNCHANGED outsideHandler
    /\ UNCHANGED <<table, nextId, now, planner, supabase, files, hreq, hllm, hclk, hplan, hrow>>

\* lines 161-185 and 53-55: the LLM call returns; the JSON is extracted and
\* the metadata added, or the parse error reaches the handler
LLMReturns(r, c) ==
    /\ hpc[r] = "generating"
    /\ hllm' = [hllm EXCEPT ![r] = c]
    /\ hclk' = [hclk EXCEPT ![r] = now]
    /\ LET got == ExtractPlan(c)
       IN  IF got.ok
           THEN /\ hplan' = [hplan EXCEPT ![r] = WorkoutPlan(r, got.plan, now)]
                /\ hpc' = [hpc EXCEPT ![r] = IF supabase THEN "storing" ELSE "saving"]
                /\ UNCHANGED hresp
           ELSE /\ hresp' = [hresp EXCEPT ![r] = Error500(got.error)]
                /\ hpc' = [hpc EXCEPT ![r] = "done"]
                /\ UNCHANGED hplan
    /\ UNCHANGED outsideHandler
    /\ UNCHANGED <<table, nextId, now, planner, supabase, files, hreq, hrow>>

\* lines 58-66 and 222-231: the insert succeeds; the row's id becomes the
\* plan's database_id
StoreOk(r) ==
    /\ hpc[r] = "storing"
    /\ nextId <= MaxRows
    /\ table' = Append(table, [id |-> nextId, is_active |-> TRUE]
                              @@ SupabaseData(hplan[r]))
    /\ nextId' = nextId + 1
    /\ hrow' = [hrow EXCEPT ![r] = nextId]
    /\ hplan' = [hplan EXCEPT ![r] = Put(hplan[r], "database_id", <<ToString(nextId)>>)]
    /\ hpc' = [hpc EXCEPT ![r] = "saving"]
    /\ UNCHANGED outsideHandler
    /\ UNCHANGED <<now, planner, supabase, files, hreq, hllm, hclk, hresp>>

\* lines 67-72: the insert fails; the exception is printed and dropped
StoreFails(r) ==
    /\ hpc[r] = "storing"
    /\ hpc' = [hpc EXCEPT ![r] = "saving"]
    /\ UNCHANGED outsideHandler
    /\ UNCHANGED <<table, nextId, now, planner, supabase, files, hreq, hllm, hclk, hplan, hrow, hresp>>

\* lines 75-77, 236-243 and 135-148: the backup file is written (an existing
\* file of that name is overwritten) and the handler answers 200
SaveLocalOk(r) ==
    /\ hpc[r] = "saving"
    /\ files' = Put(files, BackupName(hplan[r]), hplan[r])
    /\ hresp' = [hresp EXCEPT ![r] = Ok200(r, hplan[r])]
    /\ hpc' = [hpc EXCEPT ![r] = "done"]
    /\ UNCHANGED outsideHandler
    /\ UNCHANGED <<table, nextId, now, planner, supabase, hreq, hllm, hclk, hplan, hrow>>

\* lines 240-241 and 150-154: open() or the write raises OSError; nothing
\* catches it before the handler, which answers 500
SaveLocalFails(r) ==
    /\ hpc[r] = "saving"
    /\ hresp' = [hresp EXCEPT ![r] = Error500("OSError")]
    /\ hpc' = [hpc EXCEPT ![r] = "done"]
    /\ UNCHANGED outsideHandler
    /\ UNCHANGED <<table, nextId, now, planner, supabase, files, hreq, hllm, hclk, hplan, hrow>>

\* no request is being served
GenIdle ==
    /\ now = 0
    /\ files = << >>
    /\ hpc = [r \in Requests |-> "idle"]
    /\ hreq = [r \in Requests |-> NoBody]
    /\ hllm = [r \in Requests |-> << >>]
    /\ hclk = [r \in Requests |-> 0]
    /\ hplan = [r \in Requests |-> None]
    /\ hrow = [r \in Requests |-> 0]
    /\ hresp = [r \in Requests |-> NoResponse]

\* railway_main.lifespan and IntegratedWorkoutPlanner.__init__: the planner is
\* created, with a Supabase client when the credentials are set, or
\* app.state.integrated_planner is None
GenInit ==
    /\ GenIdle
    /\ \/ planner = "ready" /\ supabase \in BOOLEAN
       \/ planner = "none" /\ supabase = FALSE

GenNext ==
    \/ Tick
    \/ \E r \in Requests, body \in Bodies : ReceiveNoPlanner(r, body)
    \/ \E r \in Requests, body \in Bodies : Receive(r, body)
    \/ \E r \in Requests : LLMRaises(r)
    \/ \E r \in Requests, c \in Replies : LLMReturns(r, c)
    \/ \E r \in Requests : StoreOk(r)
    \/ \E r \in Requests : StoreFails(r)
    \/ \E r \in Requests : SaveLocalOk(r)
    \/ \E r \in Requests : SaveLocalFails(r)

----------------------------------------------------------------------------
(* The five-stage orchestrator: OrchestratorAgentFixed.generate_health_plan *)

\* Text that the code transforms character by character (population, goals)
\* is a sequence of characters.
UpperCase == <<"A", "B", "C", "D", "E", "F", "G", "H", "I", "J", "K", "L", "M",
               "N", "O", "P", "Q", "R", "S", "T", "U", "V", "W", "X", "Y", "Z">>

LowerCase == <<"a", "b", "c", "d", "e", "f", "g", "h", "i", "j", "k", "l", "m",
               "n", "o", "p", "q", "r", "s", "t", "u", "v", "w", "x", "y", "z">>

\* the spelling of the texts used below
Chars ==
    [
      weight_loss |->
        <<"w","e","i","g","h","t","_","l","o","s","s">>,
      fat_loss |->
        <<"f","a","t","_","l","o","s","s">>,
      endurance |->
        <<"e","n","d","u","r","a","n","c","e">>,
      raw_post_partum_moms |->
        <<"P","o","s","t","-","P","a","r","t","u","m"," ","M","o","m","s">>,
      postpartum |->
        <<"p","o","s","t","p","a","r","t","u","m">>,
      raw_core_strength |->
        <<"C","o","r","e"," ","S","t","r","e","n","g","t","h">>,
      athletes |->
        <<"a","t","h","l","e","t","e","s">>,
      strength |->
        <<"s","t","r","e","n","g","t","h">>,
      postpartum_reconditioning |->
        <<"p","o","s","t","p","a","r","t","u","m","_","r","e","c","o","n","d","i","t","i","o","n","i","n","g">>,
      senior_fitness |->
        <<"s","e","n","i","o","r","_","f","i","t","n","e","s","s">>,
      mobility |->
        <<"m","o","b","i","l","i","t","y">>,
      balance |->
        <<"b","a","l","a","n","c","e">>,
      core_restoration |->
        <<"c","o","r","e","_","r","e","s","t","o","r","a","t","i","o","n">>,
      muscle_gain |->
        <<"m","u","s","c","l","e","_","g","a","i","n">>,
      strength_improvement |->
        <<"s","t","r","e","n","g","t","h","_","i","m","p","r","o","v","e","m","e","n","t">>,
      pelvic_floor_recovery |->
        <<"p","e","l","v","i","c","_","f","l","o","o","r","_","r","e","c","o","v","e","r","y">>
    ]

\* str.lower() on one character
LowerChar(c) ==
    IF \E i \in 1..Len(UpperCase) : UpperCase[i] = c
    THEN LowerCase[CHOOSE i \in 1..Len(UpperCase) : UpperCase[i] = c]
    ELSE c

\* str.lower()
Lower(txt) == [i \in 1..Len(txt) |-> LowerChar(txt[i])]

\* str.replace(old, new) for one-character old and new
Replace(txt, old, new) ==
    [i \in 1..Len(txt) |-> IF txt[i] = old THEN new ELSE txt[i]]

\* sep.join(parts)
RECURSIVE Join(_, _)
Join(sep, parts) ==
    IF parts = << >> THEN << >>
    ELSE IF Len(parts) = 1 THEN parts[1]
    ELSE parts[1] \o sep \o Join(sep, Tail(parts))

\* goals[:2]
FirstTwo(goals) == SubSeq(goals, 1, IF Len(goals) < 2 THEN Len(goals) ELSE 2)

\* _generate_plan_id
GeneratePlanId(request) ==
    LET population_slug ==
            Replace(Replace(Lower(request.population), " ", "_"), "-", "_")
        goals_slug ==
            Join(<<"_">>, [i \in 1..Len(FirstTwo(request.goals)) |->
                             Replace(Lower(request.goals[i]), " ", "_")])
    IN  population_slug \o <<"_">> \o goals_slug

\* the generation calls that may run at once on one event loop
Calls == {"g1", "g2"}

\* HealthPlanRequest values; timeline, fitness_level and preferences keep
\* their defaults
OrchRequests ==
    { [population |-> Chars.weight_loss,
       goals |-> << Chars.fat_loss, Chars.endurance >>,
       constraints |-> << >>,
       timeline |-> "12_weeks", fitness_level |-> "beginner"],
      [population |-> Chars.raw_post_partum_moms,
       goals |-> << Chars.postpartum, Chars.raw_core_strength, Chars.endurance >>,
       constraints |-> << "diastasis_recti" >>,
       timeline |-> "12_weeks", fitness_level |-> "beginner"],
      [population |-> Chars.athletes,
       goals |-> << Chars.strength >>,
       constraints |-> << "hypertension", "diastasis_recti" >>,
       timeline |-> "12_weeks", fitness_level |-> "beginner"] }

NoRequest ==
    [population |-> << >>, goals |-> << >>, constraints |-> << >>,
     timeline |-> "", fitness_level |-> ""]

\* x in list
In(x, list) == \E i \in 1..Len(list) : list[i] = x

\* ResearchAgent._extract_recommendations
ExtractRecommendations(population) ==
    IF population = Chars.postpartum_reconditioning
    THEN << "Begin exercise 6-8 weeks postpartum with medical clearance",
            "Start with gentle walking and pelvic floor exercises",
            "Progress gradually and listen to your body",
            "Stop if you experience pain or unusual symptoms" >>
    ELSE IF population = Chars.weight_loss
    THEN << "Start with low-impact activities",
            "Gradually increase intensity and duration",
            "Focus on sustainable lifestyle changes",
            "Monitor progress and adjust as needed" >>
    ELSE << "Consult healthcare provider before starting" >>

RECURSIVE ConcatAll(_)
ConcatAll(lists) ==
    IF lists = << >> THEN << >> ELSE lists[1] \o ConcatAll(Tail(lists))

\* the list without its repeated entries
RECURSIVE Dedup(_)
Dedup(list) ==
    IF list = << >> THEN << >>
    ELSE LET rest == Dedup(SubSeq(list, 1, Len(list) - 1))
             x == list[Len(list)]
         IN  IF In(x, rest) THEN rest ELSE Append(rest, x)

\* ResearchAgent._extract_contraindications; list(set(...)) leaves the order
\* open, the entries are kept here in the order they were added
ExtractContraindications(population, constraints) ==
    LET base ==
            IF population = Chars.postpartum_reconditioning
            THEN << "Unresolved diastasis recti >2cm",
                    "Pelvic organ prolapse symptoms",
                    "Uncontrolled bleeding", "C-section complications" >>
            ELSE IF population = Chars.weight_loss
            THEN << "Severe obesity complications", "Uncontrolled hypertension",
                    "Cardiac conditions" >>
            ELSE << >>
        forConstraint(c) ==
            CASE c = "diastasis_recti" ->
                    << "Traditional crunches", "Sit-ups", "Heavy lifting" >>
              [] c = "pelvic_organ_prolapse" ->
                    << "High-impact exercises", "Heavy lifting" >>
              [] c = "hypertension" -> << "Heavy lifting", "Isometric exercises" >>
              [] OTHER -> << >>
    IN  Dedup(base \o ConcatAll([i \in 1..Len(constraints) |->
                                    forConstraint(constraints[i])]))

\* ResearchAgent.process: the findings that the later stages read; llm_ok
\* tells whether the LLM call of _extract_safety_info succeeded
ResearchFindings(request, llm_ok) ==
    [population |-> request.population,
     goals |-> request.goals,
     constraints |-> request.constraints,
     contraindications |->
        IF llm_ok
        THEN ExtractContraindications(request.population, request.constraints)
        ELSE << >>,
     recommendations |->
        IF llm_ok THEN ExtractRecommendations(request.population)
        ELSE << "Consult healthcare provider before starting any exercise program" >>]

\* FitnessAgent._organize_by_days, lines 140-187: the days of the plan for
\* senior fitness, mobility or balance goals
SeniorDays ==
  <<
    [day |-> "Full Body A", exercises |-> <<
         [name |-> "Gentle warm-up walk", sets |-> "1", reps |-> "5-10 min",
          rest |-> "N/A",
          notes |-> "Start slow, gradually increase pace"],
         [name |-> "Bodyweight squats", sets |-> "3", reps |-> "8-12",
          rest |-> "90s",
          notes |-> "Focus on form, go as deep as comfortable"],
         [name |-> "Wall push-ups", sets |-> "3", reps |-> "8-15",
          rest |-> "90s",
          notes |-> "Adjust distance from wall for difficulty"],
         [name |-> "Seated rows with resistance band", sets |-> "3", reps |-> "10-15",
          rest |-> "90s",
          notes |-> "Keep back straight, pull elbows back"],
         [name |-> "Heel raises", sets |-> "3", reps |-> "12-15",
          rest |-> "60s",
          notes |-> "Hold onto support if needed for balance"],
         [name |-> "Gentle stretching", sets |-> "1", reps |-> "5-10 min",
          rest |-> "N/A",
          notes |-> "Focus on major muscle groups"] >>],
    [day |-> "Mobility & Balance", exercises |-> <<
         [name |-> "Tai Chi warm-up", sets |-> "1", reps |-> "10-15 min",
          rest |-> "N/A",
          notes |-> "Slow, controlled movements"],
         [name |-> "Single-leg balance", sets |-> "3", reps |-> "30s each leg",
          rest |-> "60s",
          notes |-> "Hold onto support initially"],
         [name |-> "Hip circles", sets |-> "2", reps |-> "10 each direction",
          rest |-> "30s",
          notes |-> "Gentle circular movements"],
         [name |-> "Shoulder rolls", sets |-> "2", reps |-> "10 forward, 10 backward",
          rest |-> "30s",
          notes |-> "Full range of motion"],
         [name |-> "Ankle mobility", sets |-> "2", reps |-> "10 each foot",
          rest |-> "30s",
          notes |-> "Point and flex toes"],
         [name |-> "Cool-down walk", sets |-> "1", reps |-> "5-10 min",
          rest |-> "N/A",
          notes |-> "Gradual slowdown"] >>],
    [day |-> "Full Body B", exercises |-> <<
         [name |-> "Light cardio warm-up", sets |-> "1", reps |-> "8-10 min",
          rest |-> "N/A",
          notes |-> "Walking, cycling, or swimming"],
         [name |-> "Step-ups", sets |-> "3", reps |-> "8-12 each leg",
          rest |-> "90s",
          notes |-> "Use low step, focus on control"],
         [name |-> "Modified plank", sets |-> "3", reps |-> "20-40s",
          rest |-> "90s",
          notes |-> "Knees down if needed"],
         [name |-> "Seated shoulder press", sets |-> "3", reps |-> "8-12",
          rest |-> "90s",
          notes |-> "Light weights, full range of motion"],
         [name |-> "Seated leg extensions", sets |-> "3", reps |-> "10-15",
          rest |-> "90s",
          notes |-> "Slow and controlled"],
         [name |-> "Gentle yoga flow", sets |-> "1", reps |-> "8-10 min",
          rest |-> "N/A",
          notes |-> "Sun salutation variations"] >>],
    [day |-> "Active Recovery", exercises |-> <<
         [name |-> "Gentle walking", sets |-> "1", reps |-> "20-30 min",
          rest |-> "N/A",
          notes |-> "Conversational pace"],
         [name |-> "Light stretching", sets |-> "1", reps |-> "10-15 min",
          rest |-> "N/A",
          notes |-> "Hold each stretch 20-30s"],
         [name |-> "Deep breathing", sets |-> "1", reps |-> "5 min",
          rest |-> "N/A",
          notes |-> "4-7-8 breathing pattern"],
         [name |-> "Foam rolling", sets |-> "1", reps |-> "10 min",
          rest |-> "N/A",
          notes |-> "Gentle pressure on major muscles"] >>],
    [day |-> "Full Body C", exercises |-> <<
         [name |-> "Dynamic warm-up", sets |-> "1", reps |-> "8-10 min",
          rest |-> "N/A",
          notes |-> "Arm circles, hip swings, ankle rolls"],
         [name |-> "Chair squats", sets |-> "3", reps |-> "10-15",
          rest |-> "90s",
          notes |-> "Sit and stand, use chair for safety"],
         [name |-> "Standing rows", sets |-> "3", reps |-> "10-15",
          rest |-> "90s",
          notes |-> "Resistance band or light weights"],
         [name |-> "Side leg raises", sets |-> "3", reps |-> "8-12 each leg",
          rest |-> "90s",
          notes |-> "Hold onto support for balance"],
         [name |-> "Chest stretch", sets |-> "3", reps |-> "30s hold",
          rest |-> "60s",
          notes |-> "Doorway stretch or corner stretch"],
         [name |-> "Cool-down stretches", sets |-> "1", reps |-> "8-10 min",
          rest |-> "N/A",
          notes |-> "Focus on tight areas"] >>],
    [day |-> "Rest Day", exercises |-> <<
         [name |-> "Light walking", sets |-> "1", reps |-> "15-20 min",
          rest |-> "N/A",
          notes |-> "Optional, very light pace"],
         [name |-> "Gentle stretching", sets |-> "1", reps |-> "10 min",
          rest |-> "N/A",
          notes |-> "Only if feeling good"],
         [name |-> "Restorative activities", sets |-> "1", reps |-> "As desired",
          rest |-> "N/A",
          notes |-> "Reading, meditation, light hobbies"] >>]
  >>

\* lines 191-213: the days of the postpartum plan
PostpartumDays ==
  <<
    [day |-> "Foundation Phase", exercises |-> <<
         [name |-> "Pelvic floor activation", sets |-> "3", reps |-> "5-10",
          rest |-> "60s",
          notes |-> "Kegels, gentle contractions"],
         [name |-> "Gentle walking", sets |-> "1", reps |-> "15-20 min",
          rest |-> "N/A",
          notes |-> "Flat surface, comfortable pace"],
         [name |-> "Pelvic tilts", sets |-> "3", reps |-> "10-15",
          rest |-> "60s",
          notes |-> "Lie on back, gentle movements"],
         [name |-> "Deep breathing", sets |-> "1", reps |-> "5 min",
          rest |-> "N/A",
          notes |-> "Diaphragmatic breathing"],
         [name |-> "Gentle stretching", sets |-> "1", reps |-> "8-10 min",
          rest |-> "N/A",
          notes |-> "Focus on major muscle groups"] >>],
    [day |-> "Progressive Phase", exercises |-> <<
         [name |-> "Pelvic floor exercises", sets |-> "3", reps |-> "10",
          rest |-> "60s",
          notes |-> "Progressive intensity"],
         [name |-> "Bird dog", sets |-> "3", reps |-> "8-12",
          rest |-> "90s",
          notes |-> "Start on hands and knees"],
         [name |-> "Modified plank", sets |-> "3", reps |-> "20-30s",
          rest |-> "90s",
          notes |-> "Knees down, build endurance"],
         [name |-> "Gentle squats", sets |-> "3", reps |-> "8-12",
          rest |-> "90s",
          notes |-> "Use support if needed"],
         [name |-> "Walking intervals", sets |-> "3", reps |-> "5 min",
          rest |-> "2 min",
          notes |-> "Gradually increase pace"] >>],
    [day |-> "Integration Phase", exercises |-> <<
         [name |-> "Dead bug", sets |-> "3", reps |-> "10-15",
          rest |-> "90s",
          notes |-> "Core stability focus"],
         [name |-> "Bodyweight squats", sets |-> "3", reps |-> "10-15",
          rest |-> "90s",
          notes |-> "Full range of motion"],
         [name |-> "Modified push-ups", sets |-> "3", reps |-> "5-10",
          rest |-> "90s",
          notes |-> "Knees down or wall push-ups"],
         [name |-> "Walking lunges", sets |-> "2", reps |-> "8-10 each leg",
          rest |-> "90s",
          notes |-> "Light and controlled"],
         [name |-> "Core stabilization", sets |-> "3", reps |-> "30s hold",
          rest |-> "60s",
          notes |-> "Plank variations"] >>]
  >>

\* lines 217-259: the days of the general fitness plan
GeneralDays ==
  <<
    [day |-> "Full Body A", exercises |-> <<
         [name |-> "Dynamic warm-up", sets |-> "1", reps |-> "8-10 min",
          rest |-> "N/A",
          notes |-> "Jumping jacks, arm circles, hip swings"],
         [name |-> "Squats", sets |-> "4", reps |-> "8-12",
          rest |-> "120s",
          notes |-> "Focus on form, progressive overload"],
         [name |-> "Push-ups", sets |-> "3", reps |-> "8-15",
          rest |-> "90s",
          notes |-> "Modify difficulty as needed"],
         [name |-> "Rows", sets |-> "3", reps |-> "10-12",
          rest |-> "90s",
          notes |-> "Dumbbell or resistance band"],
         [name |-> "Plank", sets |-> "3", reps |-> "30-60s",
          rest |-> "60s",
          notes |-> "Build core endurance"],
         [name |-> "Cool-down stretches", sets |-> "1", reps |-> "8-10 min",
          rest |-> "N/A",
          notes |-> "Major muscle groups"] >>],
    [day |-> "Cardio & Mobility", exercises |-> <<
         [name |-> "Light cardio", sets |-> "1", reps |-> "20-25 min",
          rest |-> "N/A",
          notes |-> "Walking, cycling, or swimming"],
         [name |-> "Dynamic stretching", sets |-> "1", reps |-> "10-15 min",
          rest |-> "N/A",
          notes |-> "Hip swings, leg swings, arm circles"],
         [name |-> "Mobility work", sets |-> "1", reps |-> "10-15 min",
          rest |-> "N/A",
          notes |-> "Shoulder, hip, and ankle mobility"] >>],
    [day |-> "Full Body B", exercises |-> <<
         [name |-> "Warm-up", sets |-> "1", reps |-> "8-10 min",
          rest |-> "N/A",
          notes |-> "Light cardio and dynamic stretches"],
         [name |-> "Lunges", sets |-> "3", reps |-> "10-12 each leg",
          rest |-> "90s",
          notes |-> "Forward, reverse, and walking variations"],
         [name |-> "Dips", sets |-> "3", reps |-> "8-12",
          rest |-> "90s",
          notes |-> "Chair dips or parallel bars"],
         [name |-> "Pull-ups/Assisted", sets |-> "3", reps |-> "5-10",
          rest |-> "120s",
          notes |-> "Use assistance if needed"],
         [name |-> "Russian twists", sets |-> "3", reps |-> "20-30",
          rest |-> "60s",
          notes |-> "Core rotation work"],
         [name |-> "Cool-down", sets |-> "1", reps |-> "8-10 min",
          rest |-> "N/A",
          notes |-> "Static stretching"] >>],
    [day |-> "Active Recovery", exercises |-> <<
         [name |-> "Light walking", sets |-> "1", reps |-> "25-30 min",
          rest |-> "N/A",
          notes |-> "Conversational pace"],
         [name |-> "Gentle stretching", sets |-> "1", reps |-> "15-20 min",
          rest |-> "N/A",
          notes |-> "Hold stretches 30-60s"],
         [name |-> "Foam rolling", sets |-> "1", reps |-> "10-15 min",
          rest |-> "N/A",
          notes |-> "Major muscle groups"] >>],
    [day |-> "Full Body C", exercises |-> <<
         [name |-> "Warm-up", sets |-> "1", reps |-> "8-10 min",
          rest |-> "N/A",
          notes |-> "Dynamic movements and light cardio"],
         [name |-> "Deadlift variation", sets |-> "3", reps |-> "8-12",
          rest |-> "120s",
          notes |-> "Romanian or single-leg"],
         [name |-> "Overhead press", sets |-> "3", reps |-> "8-12",
          rest |-> "90s",
          notes |-> "Dumbbell or barbell"],
         [name |-> "Lat pulldowns", sets |-> "3", reps |-> "10-12",
          rest |-> "90s",
          notes |-> "Focus on lat engagement"],
         [name |-> "Core circuit", sets |-> "3", reps |-> "30s each",
          rest |-> "60s",
          notes |-> "Plank, side plank, dead bug"],
         [name |-> "Cool-down", sets |-> "1", reps |-> "8-10 min",
          rest |-> "N/A",
          notes |-> "Static stretching"] >>],
    [day |-> "Rest Day", exercises |-> <<
         [name |-> "Light activity", sets |-> "1", reps |-> "15-20 min",
          rest |-> "N/A",
          notes |-> "Optional light walking or stretching"],
         [name |-> "Recovery focus", sets |-> "1", reps |-> "As needed",
          rest |-> "N/A",
          notes |-> "Sleep, hydration, nutrition"] >>]
  >>

\* FitnessAgent._organize_by_days: the training days of the plan
OrganizeByDays(goals) ==
    IF In(Chars.senior_fitness, goals) \/ In(Chars.mobility, goals)
          \/ In(Chars.balance, goals)
    THEN SeniorDays
    ELSE IF In(Chars.postpartum, goals) \/ In(Chars.core_restoration, goals)
    THEN PostpartumDays
    ELSE GeneralDays

Rule(title, text) == [title |-> title, text |-> text]

\* FitnessAgent._create_global_rules
FitnessGlobalRules(research_findings, constraints) ==
    [i \in 1..Len(research_findings.recommendations) |->
        Rule("Research-Based Recommendation", research_findings.recommendations[i])]
    \o (IF In("diastasis_recti", constraints)
        THEN << Rule("Core Safety",
                     "Stop any exercise that causes doming or bulging in the abdominal area") >>
        ELSE << >>)
    \o (IF In("pelvic_organ_prolapse", constraints)
        THEN << Rule("Pelvic Floor Protection",
                     "Avoid exercises that increase intra-abdominal pressure") >>
        ELSE << >>)
    \o << Rule("General Safety",
               "Stop if you experience pain, dizziness, or unusual symptoms"),
          Rule("Progression",
               "Only progress when current level feels comfortable and manageable") >>

\* a text in a list of a plan
Text(s) == [str |-> s]

\* the values of a plan's keys: a list of items, a nested dict as its
\* (day, exercises) pairs in order, or None
List(items) == [list |-> items]

Dict(pairs) == [dict |-> pairs]

\* isinstance(value, list)
IsList(value) == "list" \in DOMAIN value

\* isinstance(value, dict)
IsDict(value) == "dict" \in DOMAIN value

\* FitnessAgent._add_safety_considerations
SafetyConsiderations(research_findings, constraints) ==
    [i \in 1..Len(research_findings.contraindications) |->
        Text(research_findings.contraindications[i])]
    \o (IF In("diastasis_recti", constraints)
        THEN << Text("Monitor abdominal separation weekly") >> ELSE << >>)
    \o (IF In("pelvic_organ_prolapse", constraints)
        THEN << Text("Consider working with pelvic floor physical therapist") >>
        ELSE << >>)

\* FitnessAgent.process: the organized days, keyed by day name, with
\* global_rules and safety_considerations added
FitnessPlan(research_findings, goals, constraints) ==
    LET organized == OrganizeByDays(goals)
        names == { organized[i].day : i \in 1..Len(organized) }
        at(d) == CHOOSE i \in 1..Len(organized) : organized[i].day = d
    IN  [k \in names \cup {"global_rules", "safety_considerations"} |->
            IF k = "global_rules"
            THEN List(FitnessGlobalRules(research_findings, constraints))
            ELSE IF k = "safety_considerations"
            THEN List(SafetyConsiderations(research_findings, constraints))
            ELSE List(organized[at(k)].exercises)]

\* NutritionAgent._determine_nutrition_goal
DetermineNutritionGoal(goals) ==
    IF In(Chars.weight_loss, goals)
    THEN "Create a moderate caloric deficit while preserving muscle mass"
    ELSE IF In(Chars.muscle_gain, goals)
    THEN "Create a moderate caloric surplus to support muscle growth"
    ELSE IF In(Chars.strength_improvement, goals)
    THEN "Maintain bodyweight while optimizing performance and recovery"
    ELSE IF In(Chars.endurance, goals)
    THEN "Optimize carbohydrate intake for performance and recovery"
    ELSE IF In(Chars.core_restoration, goals) \/ In(Chars.pelvic_floor_recovery, goals)
    THEN "Support recovery and healing with adequate protein and nutrients"
    ELSE "Maintain current bodyweight while supporting overall health and fitness"

\* NutritionAgent.process: the keys of the nutrition plan that the safety
\* stage and the integration read; the macro figures are not computed
NutritionPlan(goals) ==
    [goal |-> DetermineNutritionGoal(goals),
     calories |-> "calories per day",
     protein |-> "g protein per day",
     carbohydrate |-> "g carbohydrates per day",
     fat |-> "g fat per day",
     meal_timing |->
        << "2-3 hours before exercise: Balanced meal with protein and carbohydrates",
           "30-60 minutes before exercise: Light snack with carbohydrates if needed",
           "Within 2 hours after exercise: Protein and carbohydrates for recovery",
           "Eat every 3-4 hours to maintain stable energy levels",
           "Include protein with each meal to support muscle maintenance" >>]

\* MotivationAgent.process: the sections of the motivation plan; no later
\* step reads what is in them
MotivationPlan ==
    [goal_setting |-> << >>, progress_tracking |-> << >>,
     encouragement_system |-> << >>, habit_formation |-> << >>,
     milestone_celebration |-> << >>]

\* ContraindicationCheckerTool.contraindications.get(condition, [])
Contraindicated(condition) ==
    CASE condition = "diastasis_recti" ->
            << "Traditional crunches", "Sit-ups", "Russian twists",
               "Planks (if separation >2cm)", "Heavy lifting" >>
      [] condition = "pelvic_organ_prolapse" ->
            << "Heavy lifting", "High-impact exercises", "Jumping", "Running",
               "Squats with heavy weights" >>
      [] condition = "pregnancy" ->
            << "Contact sports", "Scuba diving", "Hot yoga",
               "Exercises lying on back after 16 weeks",
               "High-impact activities" >>
      [] condition = "hypertension" ->
            << "Heavy lifting", "Isometric exercises",
               "High-intensity intervals", "Exercises with breath holding" >>
      [] OTHER -> << >>

\* lines 80-84: the names of a day's exercises; a dict without a name is
\* skipped, a text is taken as it is
RECURSIVE NamesOf(_)
NamesOf(day_exercises) ==
    IF day_exercises = << >> THEN << >>
    ELSE LET exercise == day_exercises[1]
         IN  (IF "name" \in DOMAIN exercise THEN << exercise.name >>
              ELSE IF "str" \in DOMAIN exercise THEN << exercise.str >>
              ELSE << >>)
             \o NamesOf(Tail(day_exercises))

\* SafetyAgent._extract_exercises: the names under the plan's "exercises"
\* key (its days in order, each with its exercises), nothing without that key
ExtractExercises(fitness_plan) ==
    IF "exercises" \in DOMAIN fitness_plan
    THEN ConcatAll([d \in 1..Len(fitness_plan["exercises"].dict) |->
                       NamesOf(fitness_plan["exercises"].dict[d].exercises.list)])
    ELSE << >>

\* ContraindicationCheckerTool.execute: flagged_exercises
FlaggedExercises(exercises, conditions) ==
    LET flagsFor(condition) ==
            LET listed(e) == In(e, Contraindicated(condition))
                hits == SelectSeq(exercises, listed)
            IN  [i \in 1..Len(hits) |->
                    [exercise |-> hits[i], condition |-> condition,
                     risk_level |-> "high"]]
    IN  ConcatAll([c \in 1..Len(conditions) |-> flagsFor(conditions[c])])

\* PlanValidatorTool.execute: the issues found in the plan
ValidationIssues(fitness_plan, nutrition_plan) ==
    (IF "progression" \notin DOMAIN fitness_plan
     THEN << "Missing progression model" >> ELSE << >>)
    \o (IF "exercises" \in DOMAIN fitness_plan /\ Len(fitness_plan["exercises"].dict) < 2
        THEN << "Insufficient exercise frequency" >> ELSE << >>)
    \o ConcatAll([i \in 1..4 |->
          LET field == << "calories", "protein", "carbohydrate", "fat" >>[i]
          IN  IF field \notin DOMAIN nutrition_plan
              THEN << "Missing " \o field \o " information" >> ELSE << >>])

\* PlanValidatorTool._calculate_coherence_score
CoherenceScore(issues) ==
    IF 100 - Len(issues) * 10 > 0 THEN 100 - Len(issues) * 10 ELSE 0

RECURSIVE Sum(_)
Sum(numbers) == IF numbers = << >> THEN 0 ELSE numbers[1] + Sum(Tail(numbers))

\* (mutant) a risk score that counts the last constraint alone
RiskScoreLastOnly(constraints, flagged, coherence_score) ==
    (IF constraints = << >> THEN 0
     ELSE IF constraints[Len(constraints)]
                \in {"diastasis_recti", "pelvic_organ_prolapse",
                     "pregnancy", "hypertension"}
     THEN 3 ELSE 1)
    + Len(flagged) * 2
    + (IF coherence_score < 70 THEN 2 ELSE 0)

\* SafetyAgent._assess_risk: risk_score
RiskScore(constraints, flagged, coherence_score) ==
    Sum([i \in 1..Len(constraints) |->
            IF constraints[i] \in {"diastasis_recti", "pelvic_organ_prolapse",
                                   "pregnancy", "hypertension"}
            THEN 3 ELSE 1])
    + Len(flagged) * 2
    + (IF coherence_score < 70 THEN 2 ELSE 0)

\* SafetyAgent._assess_risk: risk_level
RiskLevel(risk_score) ==
    IF risk_score >= 8 THEN "high"
    ELSE IF risk_score >= 4 THEN "moderate"
    ELSE "low"

\* SafetyAgent._determine_safety_rating
SafetyRating(risk_level, validation_score, contraindications) ==
    IF risk_level = "high" \/ validation_score < 50 \/ Len(contraindications) > 3
    THEN "requires_medical_clearance"
    ELSE IF risk_level = "moderate" \/ validation_score < 70
              \/ Len(contraindications) > 1
    THEN "moderate_risk"
    ELSE "low_risk"

\* SafetyAgent._generate_safety_recommendations
SafetyRecommendations(constraints, research_findings) ==
    research_findings.recommendations
    \o (IF In("diastasis_recti", constraints)
        THEN << "Monitor abdominal separation weekly",
                "Stop any exercise that causes doming",
                "Focus on transverse abdominis activation",
                "Consider working with a physical therapist" >>
        ELSE << >>)
    \o (IF In("pelvic_organ_prolapse", constraints)
        THEN << "Prioritize pelvic floor strengthening",
                "Avoid exercises that increase intra-abdominal pressure",
                "Consider working with a pelvic floor specialist",
                "Monitor for symptoms of prolapse" >>
        ELSE << >>)
    \o (IF In("pregnancy", constraints)
        THEN << "Get medical clearance before starting exercise",
                "Avoid exercises lying on back after 16 weeks",
                "Stay hydrated and avoid overheating",
                "Listen to your body and stop if needed" >>
        ELSE << >>)
    \o << "Start slowly and progress gradually",
          "Stop if you experience pain or unusual symptoms",
          "Stay hydrated during exercise",
          "Get adequate rest and recovery",
          "Consult healthcare provider with any concerns" >>

\* SafetyAgent.process: the report, without its lists of modifications and
\* emergency protocols
SafetyReport(fitness_plan, nutrition_plan, constraints, research_findings) ==
    LET exercises == ExtractExercises(fitness_plan)
        flagged == FlaggedExercises(exercises, constraints)
        score == CoherenceScore(ValidationIssues(fitness_plan, nutrition_plan))
        risk_score == RiskScore(constraints, flagged, score)
    IN  [contraindications |-> flagged,
         validation_score |-> score,
         risk_assessment |-> [risk_score |-> risk_score,
                              risk_level |-> RiskLevel(risk_score)],
         safety_recommendations |->
            SafetyRecommendations(constraints, research_findings),
         overall_safety |-> SafetyRating(RiskLevel(risk_score), score, flagged)]

\* the texts of a list of a plan
Strings(value) == [i \in 1..Len(value.list) |-> value.list[i].str]

\* _create_weekly_split: the plan's own value when it has one
CreateWeeklySplit(fitness_plan) ==
    IF "weekly_split" \in DOMAIN fitness_plan
    THEN IF IsList(fitness_plan["weekly_split"])
         THEN Strings(fitness_plan["weekly_split"])
         ELSE fitness_plan["weekly_split"]
    ELSE << "Mon: Full Body A", "Tue: Rest", "Wed: Full Body B", "Thu: Rest",
            "Fri: Full Body C", "Sat: Active Recovery", "Sun: Rest" >>

\* _create_global_rules
CreateGlobalRules(fitness_plan, safety_report) ==
    LET safety ==
            IF "safety_guidelines" \in DOMAIN safety_report
            THEN [i \in 1..Len(safety_report.safety_guidelines) |->
                     Rule("Safety", safety_report.safety_guidelines[i])]
            ELSE << >>
        training ==
            IF "training_principles" \in DOMAIN fitness_plan
            THEN [i \in 1..Len(fitness_plan["training_principles"].list) |->
                     Rule("Training", fitness_plan["training_principles"].list[i].str)]
            ELSE << >>
    IN  IF safety \o training # << >> THEN safety \o training
        ELSE << Rule("Progression",
                     "Start with lighter weights and gradually increase as you become comfortable with the movements."),
                Rule("Form",
                     "Focus on proper form and technique before increasing intensity or weight.") >>

\* lines 371-384: one entry of a day, "N) Name - SetsxReps (notes)"; the
\* source writes an em dash and a multiplication sign
FormatExercise(i, exercise) ==
    IF "str" \in DOMAIN exercise
    THEN ToString(i) \o ") " \o exercise.str
    ELSE LET name == IF "name" \in DOMAIN exercise THEN exercise.name ELSE "Exercise"
             sets == IF "sets" \in DOMAIN exercise THEN exercise.sets ELSE "3"
             reps == IF "reps" \in DOMAIN exercise THEN exercise.reps ELSE "8-12"
             notes == IF "notes" \in DOMAIN exercise THEN exercise.notes ELSE ""
         IN  ToString(i) \o ") " \o name \o " - " \o sets \o "x" \o reps
                \o (IF notes # "" THEN " (" \o notes \o ")" ELSE "")

FormatDay(exercises) == [i \in 1..Len(exercises) |-> FormatExercise(i, exercises[i])]

\* enumerate(value, 1): the items of a list, the keys of a dict
Enumerated(value) ==
    IF IsList(value) THEN value.list
    ELSE [i \in 1..Len(value.dict) |-> Text(value.dict[i].day)]

\* lines 366-384 and 412-428: the days of a nested dict, given as its
\* (day, exercises) pairs; lists_only keeps the non-empty lists alone
FormatPairs(pairs, lists_only) ==
    LET kept == { i \in 1..Len(pairs) :
                    lists_only => /\ IsList(pairs[i].exercises)
                                  /\ pairs[i].exercises.list # << >> }
        at(d) == CHOOSE i \in kept : pairs[i].day = d
    IN  [d \in { pairs[i].day : i \in kept } |->
            FormatDay(Enumerated(pairs[at(d)].exercises))]

\* the keys that mark the organized structure of the Fitness stage
OrganizedKeys == {"Full Body A", "Foundation Phase", "Mobility & Balance"}

\* _create_days_structure raises: .items() of a "days" value that is no
\* dict (line 366), enumerate() of None under "exercises" (line 414)
DaysStructureRaises(fitness_plan) ==
    IF "days" \in DOMAIN fitness_plan
    THEN ~IsDict(fitness_plan["days"])
    ELSE /\ OrganizedKeys \cap DOMAIN fitness_plan = {}
         /\ "exercises" \in DOMAIN fitness_plan
         /\ IsDict(fitness_plan["exercises"])
         /\ \E i \in 1..Len(fitness_plan["exercises"].dict) :
                fitness_plan["exercises"].dict[i].exercises = None

\* (mutant) _create_days_structure without the default structure of
\* lines 431-440
CreateDaysStructureNoDefault(fitness_plan) ==
    IF "days" \in DOMAIN fitness_plan
    THEN FormatPairs(fitness_plan["days"].dict, TRUE)
    ELSE IF OrganizedKeys \cap DOMAIN fitness_plan # {}
    THEN [d \in { k \in DOMAIN fitness_plan :
                    /\ IsList(fitness_plan[k])
                    /\ fitness_plan[k].list # << >> } |->
             FormatDay(fitness_plan[d].list)]
    ELSE IF "exercises" \in DOMAIN fitness_plan /\ IsDict(fitness_plan["exercises"])
    THEN FormatPairs(fitness_plan["exercises"].dict, FALSE)
    ELSE << >>

\* _create_days_structure
CreateDaysStructure(fitness_plan) ==
    LET days ==
            IF "days" \in DOMAIN fitness_plan
            THEN FormatPairs(fitness_plan["days"].dict, TRUE)
            ELSE IF OrganizedKeys \cap DOMAIN fitness_plan # {}
            THEN [d \in { k \in DOMAIN fitness_plan :
                            /\ IsList(fitness_plan[k])
                            /\ fitness_plan[k].list # << >> } |->
                     FormatDay(fitness_plan[d].list)]
            ELSE IF "exercises" \in DOMAIN fitness_plan
                    /\ IsDict(fitness_plan["exercises"])
            THEN FormatPairs(fitness_plan["exercises"].dict, FALSE)
            ELSE << >>
    IN  IF DOMAIN days # {} THEN days
        ELSE [d \in {"Full Body A"} |->
                << "1) Bodyweight squats - 3x10-15", "2) Push-ups - 3x5-10",
                   "3) Walking lunges - 2x10/leg", "4) Plank - 3x30 seconds" >>]

\* _create_conditioning_recovery
CreateConditioningRecovery(fitness_plan) ==
    LET recovery_items ==
            (IF "recovery_protocols" \in DOMAIN fitness_plan
             THEN Strings(fitness_plan["recovery_protocols"]) ELSE << >>)
            \o (IF "conditioning_guidelines" \in DOMAIN fitness_plan
                THEN Strings(fitness_plan["conditioning_guidelines"]) ELSE << >>)
    IN  IF recovery_items # << >> THEN recovery_items
        ELSE << "Include 10-15 minutes of daily mobility work",
                "Prioritize sleep and stress management",
                "Listen to your body and rest when needed" >>

\* dict.get(key, default) on a plan with text values
Get(plan, key, default) == IF key \in DOMAIN plan THEN plan[key] ELSE default

\* _create_nutrition_section
CreateNutritionSection(nutrition_plan) ==
    [goal |-> Get(nutrition_plan, "nutritional_goals",
                  "Support overall health and fitness goals"),
     calories |-> Get(nutrition_plan, "calorie_target", "Maintenance calories"),
     protein |-> Get(nutrition_plan, "protein_target", "1.6-2.2 g/kg/day"),
     carbohydrate |-> Get(nutrition_plan, "carb_target", "3-6 g/kg/day"),
     fat |-> Get(nutrition_plan, "fat_target", "0.6-1.0 g/kg/day"),
     timing_and_training_day_setup |->
        Get(nutrition_plan, "meal_timing",
            << "Eat every 3-4 hours to maintain stable energy levels",
               "Include protein and carbohydrates within 2 hours after exercise" >>)]

\* _create_execution_checklist; no text of a fitness plan contains
\* "core_restoration", so the goal-specific entries are never added
CreateExecutionChecklist(safety_report) ==
    << "Obtain medical clearance if required",
       "Set up tracking systems for progress monitoring",
       "Prepare workout space and equipment",
       "Plan meals and grocery shopping",
       "Set up accountability systems",
       "Review and adjust plan based on progress",
       "Track key metrics and measurements",
       "Ensure adequate rest and recovery",
       "Stay hydrated and follow nutrition guidelines",
       "Celebrate small wins and progress" >>
    \o (IF safety_report.overall_safety # "low_risk"
        THEN << "Monitor for any concerning symptoms",
                "Have emergency contact information readily available",
                "Consider working with a qualified professional" >>
        ELSE << >>)

\* _integrate_plan; llm_ok tells whether the LLM call of _generate_overview
\* succeeded
IntegratePlan(request, fitness_plan, nutrition_plan, safety_report, llm_ok) ==
    [plan_id |-> GeneratePlanId(request),
     plan |->
        [overview |-> IF llm_ok THEN "overview written by the LLM"
                      ELSE "fallback overview",
         weekly_split |-> CreateWeeklySplit(fitness_plan),
         global_rules |-> CreateGlobalRules(fitness_plan, safety_report),
         days |-> CreateDaysStructure(fitness_plan),
         conditioning_and_recovery |-> CreateConditioningRecovery(fitness_plan),
         nutrition |-> CreateNutritionSection(nutrition_plan),
         execution_checklist |-> CreateExecutionChecklist(safety_report)]]

\* _integrate_plan raises: _create_days_structure does, or a list the
\* reshaping iterates (lines 340, 449, 452) is None
IntegratePlanRaises(fitness_plan) ==
    \/ DaysStructureRaises(fitness_plan)
    \/ \E k \in {"training_principles", "recovery_protocols",
                  "conditioning_guidelines"} \cap DOMAIN fitness_plan :
          fitness_plan[k] = None

\* (mutant) the stages with Safety run before Motivation
PhasesSafetyEarly == << "research", "fitness", "nutrition", "safety", "motivation" >>

\* lines 73-123: the stages in the order generate_health_plan awaits them
Phases == << "research", "fitness", "nutrition", "motivation", "safety" >>

Event(ev, stage) == [ev |-> ev, stage |-> stage]

\* the stage a call is at
Phase(g) == Phases[ostep[g]]

\* lines 60-71: generate_health_plan is called with a structured request
OrchReceive(g, request) ==
    /\ opc[g] = "idle"
    /\ oreq' = [oreq EXCEPT ![g] = request]
    /\ opc' = [opc EXCEPT ![g] = "between"]
    /\ UNCHANGED <<ostep, olog, ores, ofit, onut, omot, osafe, odoc>>
    /\ UNCHANGED outsideOrchestrator

\* lines 75, 85, 97, 107, 117: the next stage's process() is awaited
StageCall(g) ==
    /\ opc[g] = "between"
    /\ ostep[g] <= Len(Phases)
    /\ opc' = [opc EXCEPT ![g] = "in"]
    /\ olog' = [olog EXCEPT ![g] = Append(@, Event("call", Phase(g)))]
    /\ UNCHANGED <<ostep, oreq, ores, ofit, onut, omot, osafe, odoc>>
    /\ UNCHANGED outsideOrchestrator

\* the awaited stage has returned: the orchestrator moves to the next phase
Returned(g) ==
    /\ opc' = [opc EXCEPT ![g] = "between"]
    /\ ostep' = [ostep EXCEPT ![g] = @ + 1]
    /\ olog' = [olog EXCEPT ![g] = Append(@, Event("return", Phase(g)))]
    /\ UNCHANGED <<oreq, odoc>>
    /\ UNCHANGED outsideOrchestrator

\* lines 75-80: ResearchAgent.process returns
ResearchReturn(g, llm_ok) ==
    /\ opc[g] = "in" /\ Phase(g) = "research"
    /\ ores' = [ores EXCEPT ![g] = ResearchFindings(oreq[g], llm_ok)]
    /\ Returned(g)
    /\ UNCHANGED <<ofit, onut, omot, osafe>>

\* lines 85-93: FitnessAgent.process returns
FitnessReturn(g) ==
    /\ opc[g] = "in" /\ Phase(g) = "fitness"
    /\ ofit' = [ofit EXCEPT ![g] =
                  FitnessPlan(ores[g], oreq[g].goals, oreq[g].constraints)]
    /\ Returned(g)
    /\ UNCHANGED <<ores, onut, omot, osafe>>

\* lines 97-103: NutritionAgent.process returns
NutritionReturn(g) ==
    /\ opc[g] = "in" /\ Phase(g) = "nutrition"
    /\ onut' = [onut EXCEPT ![g] = NutritionPlan(oreq[g].goals)]
    /\ Returned(g)
    /\ UNCHANGED <<ores, ofit, omot, osafe>>

\* lines 107-113: MotivationAgent.process returns
MotivationReturn(g) ==
    /\ opc[g] = "in" /\ Phase(g) = "motivation"
    /\ omot' = [omot EXCEPT ![g] = MotivationPlan]
    /\ Returned(g)
    /\ UNCHANGED <<ores, ofit, onut, osafe>>

\* lines 117-124: SafetyAgent.process returns
SafetyReturn(g) ==
    /\ opc[g] = "in" /\ Phase(g) = "safety"
    /\ osafe' = [osafe EXCEPT ![g] =
                   SafetyReport(ofit[g], onut[g], oreq[g].constraints, ores[g])]
    /\ Returned(g)
    /\ UNCHANGED <<ores, ofit, onut, omot>>

\* the awaited stage raises: generate_health_plan has no handler, the
\* exception ends the call
StageRaises(g) ==
    /\ opc[g] = "in"
    /\ opc' = [opc EXCEPT ![g] = "failed"]
    /\ olog' = [olog EXCEPT ![g] = Append(@, Event("raise", Phase(g)))]
    /\ UNCHANGED <<ostep, oreq, ores, ofit, onut, omot, osafe, odoc>>
    /\ UNCHANGED outsideOrchestrator

\* lines 128-142: all five stages have returned; the plan is integrated and
\* returned
Integrate(g, llm_ok) ==
    /\ opc[g] = "between"
    /\ ostep[g] > Len(Phases)
    /\ ~IntegratePlanRaises(ofit[g])
    /\ odoc' = [odoc EXCEPT ![g] =
                  IntegratePlan(oreq[g], ofit[g], onut[g], osafe[g], llm_ok)]
    /\ opc' = [opc EXCEPT ![g] = "done"]
    /\ UNCHANGED <<ostep, oreq, olog, ores, ofit, onut, omot, osafe>>
    /\ UNCHANGED outsideOrchestrator

\* lines 128-135: _integrate_plan raises; generate_health_plan has no
\* handler, the exception ends the call
IntegrateRaises(g) ==
    /\ opc[g] = "between"
    /\ ostep[g] > Len(Phases)
    /\ IntegratePlanRaises(ofit[g])
    /\ opc' = [opc EXCEPT ![g] = "failed"]
    /\ UNCHANGED <<ostep, oreq, olog, ores, ofit, onut, omot, osafe, odoc>>
    /\ UNCHANGED outsideOrchestrator

\* no generation call has started
OrchInit ==
    /\ opc = [g \in Calls |-> "idle"]
    /\ ostep = [g \in Calls |-> 1]
    /\ oreq = [g \in Calls |-> NoRequest]
    /\ olog = [g \in Calls |-> << >>]
    /\ ores = [g \in Calls |-> None]
    /\ ofit = [g \in Calls |-> None]
    /\ onut = [g \in Calls |-> None]
    /\ omot = [g \in Calls |-> None]
    /\ osafe = [g \in Calls |-> None]
    /\ odoc = [g \in Calls |-> None]

OrchNext ==
    \/ \E g \in Calls, request \in OrchRequests : OrchReceive(g, request)
    \/ \E g \in Calls : StageCall(g)
    \/ \E g \in Calls, llm_ok \in BOOLEAN : ResearchReturn(g, llm_ok)
    \/ \E g \in Calls : FitnessReturn(g)
    \/ \E g \in Calls : NutritionReturn(g)
    \/ \E g \in Calls : MotivationReturn(g)
    \/ \E g \in Calls : SafetyReturn(g)
    \/ \E g \in Calls : StageRaises(g)
    \/ \E g \in Calls, llm_ok \in BOOLEAN : Integrate(g, llm_ok)

----------------------------------------------------------------------------
(* The read endpoints: GET /plans/discover and GET /plans/{plan_id} *)

\* the metadata store_plan was given for a row
Metadatas ==
    { [type |-> "generated", category |-> "strength", difficulty |-> "beginner"],
      [type |-> "generated"] }

\* the tables the read endpoints may find: up to two rows that store_plan
\* inserted, none, one or both deactivated since
Tables ==
    LET rows == { [plan_id |-> p, metadata |-> m, is_active |-> a] :
                    p \in PlanIds, m \in Metadatas, a \in BOOLEAN }
        row(r, id) == [id |-> id, plan_data |-> [overview |-> <<"D" \o ToString(id)>>]] @@ r
    IN  { << >> } \cup { << row(r, 1) >> : r \in rows }
        \cup { << row(r, 1), row(s, 2) >> : r \in rows, s \in rows }

CatalogFile == "app/data/workout_plans.json"

IndexFile == "app/data/workout_plans/index.json"

\* the path of a plan file named in the index (plans.py line 43)
PlanFile(file_path) == "app/data/workout_plans/" \o file_path

\* one (plan_id, plan_data) member of the catalog file
CatalogEntry(pid, data) == [plan_id |-> pid, plan_data |-> data]

\* the data files the deployment may hold: none; a catalog and an index
\* of one plan; a catalog and an index of two plans with one plan file
\* missing; an empty catalog alone
FileSystems ==
    { << >>,
      (CatalogFile :> << CatalogEntry("p1", [overview |-> <<"C1">>]) >>)
        @@ (IndexFile :> [plans |-> ("p1" :> [file_path |-> "p1.json"])])
        @@ (PlanFile("p1.json") :> [overview |-> <<"F1">>]),
      (CatalogFile :> << CatalogEntry("p2", [overview |-> <<"C2">>]),
                         CatalogEntry("p1", [overview |-> <<"C1">>]),
                         CatalogEntry("p3", [overview |-> <<"C3">>]) >>)
        @@ (IndexFile :> [plans |-> ("p1" :> [file_path |-> "p1.json"])
                                    @@ ("p2" :> [file_path |-> "p2.json"])])
        @@ (PlanFile("p1.json") :> [overview |-> <<"F1">>]),
      (CatalogFile :> << >>) }

\* get_all_plans, lines 97-112: the plan ids in the order of the dict it
\* builds from the active rows, newest first; nothing when the query fails
AllPlanIds(t, reached) ==
    LET newest == [i \in 1..Len(t) |-> t[Len(t) + 1 - i]]
        active(r) == r.is_active
        rows == SelectSeq(newest, active)
    IN  IF reached THEN Dedup([i \in 1..Len(rows) |-> rows[i].plan_id]) ELSE << >>

\* get_plan_metadata, lines 245-260: the metadata of result.data[0], a
\* query without an order, so of any active row of the plan; None when the
\* query fails. unset is what the column holds in a row that was inserted
\* without a metadata (the table's default, which the code does not state)
PlanMetadata(t, pid, reached, oldest, unset) ==
    LET rows == ActiveRowsOf(t, pid)
    IN  IF reached /\ rows # << >>
        THEN [metadata |-> Get(rows[IF oldest THEN 1 ELSE Len(rows)],
                               "metadata", unset)]
        ELSE None

\* list[:limit]
Take(list, limit) ==
    IF limit >= 0
    THEN SubSeq(list, 1, IF limit < Len(list) THEN limit ELSE Len(list))
    ELSE SubSeq(list, 1, IF Len(list) + limit > 0 THEN Len(list) + limit ELSE 0)

\* (mutant) a catalog plan tagged as a plan of the store
JsonPlanAsDatabase(plan_data) ==
    [plan_data |-> plan_data,
     metadata |-> [type |-> "default", category |-> "general",
                   difficulty |-> "intermediate", duration |-> "12_weeks"],
     source |-> "database"]

\* routes/workouts.py lines 792-804: a catalog plan with the default metadata
JsonPlan(plan_data) ==
    [plan_data |-> plan_data,
     metadata |-> [type |-> "default", category |-> "general",
                   difficulty |-> "intermediate", duration |-> "12_weeks"],
     source |-> "json"]

\* lines 809-821: whether a plan passes the filters that were supplied
PassesFilters(plan_info, category, difficulty, plan_type) ==
    /\ category # "" => Get(plan_info.metadata, "category", "") = category
    /\ difficulty # "" => Get(plan_info.metadata, "difficulty", "") = difficulty
    /\ plan_type # "" => Get(plan_info.metadata, "type", "") = plan_type

\* lines 829-839: a plan as the frontend gets it
ForFrontend(plan_info) ==
    [overview |-> Get(plan_info.plan_data, "overview", << >>),
     weekly_split |-> Get(plan_info.plan_data, "weekly_split", << >>),
     global_rules |-> Get(plan_info.plan_data, "global_rules", << >>),
     days |-> Get(plan_info.plan_data, "days", << >>),
     conditioning_and_recovery |->
        Get(plan_info.plan_data, "conditioning_and_recovery", << >>),
     nutrition |-> Get(plan_info.plan_data, "nutrition", << >>),
     metadata |-> plan_info.metadata,
     source |-> plan_info.source]

\* discover_workout_plans, routes/workouts.py lines 744-860 and
\* api/workouts.py lines 178-282: the plans of the store with their metadata,
\* then the catalog plans not among them, filtered, cut to the limit. The
\* filters call .get on a metadata and the formatting calls .get on a
\* plan_data: on None and on JSON text that raises, and "except Exception"
\* answers 500.
\* reached: whether get_all_plans reached the store; lost: the plans whose
\* get_plan_metadata call did not; oldest: which active row a metadata
\* query returns first
DiscoverWorkoutPlans(category, difficulty, plan_type, limit, reached, lost, oldest, unset) ==
    /\ ReadIdle
    /\ LET db_ids == AllPlanIds(table, reached)
           db_plans == GetAllPlansResult(table)
           json_plans == IF CatalogFile \in DOMAIN files THEN files[CatalogFile]
                         ELSE << >>
           meta(pid) == PlanMetadata(table, pid, pid \notin lost, oldest, unset)
           found(pid) == meta(pid) # None
           db_kept == SelectSeq(db_ids, found)
           fresh(e) == ~In(e.plan_id, db_kept)
           json_kept == SelectSeq(json_plans, fresh)
           json_at(pid) == CHOOSE i \in 1..Len(json_kept) :
                              /\ json_kept[i].plan_id = pid
                              /\ \A j \in 1..Len(json_kept) :
                                    json_kept[j].plan_id = pid => j <= i
           json_ids == Dedup([i \in 1..Len(json_kept) |-> json_kept[i].plan_id])
           plan_info(pid) ==
               IF In(pid, db_kept)
               THEN [plan_data |-> db_plans[pid], metadata |-> meta(pid).metadata,
                     source |-> "database"]
               ELSE JsonPlan(json_kept[json_at(pid)].plan_data)
           passes(pid) == PassesFilters(plan_info(pid), category, difficulty, plan_type)
           all_plans == db_kept \o json_ids
           filter_raises ==
               /\ category # "" \/ difficulty # "" \/ plan_type # ""
               /\ \E i \in 1..Len(all_plans) : plan_info(all_plans[i]).metadata = None
           limited == Take(SelectSeq(all_plans, passes), limit)
           format_raises ==
               \E i \in 1..Len(limited) : IsJsonText(plan_info(limited[i]).plan_data)
           raises == filter_raises \/ (~filter_raises /\ format_raises)
       IN  dresp' = [op |-> "discover",
                     category |-> category, difficulty |-> difficulty,
                     plan_type |-> plan_type, limit |-> limit,
                     reached |-> reached, lost |-> lost] @@
                    (IF raises
                     THEN [status |-> 500, detail |-> "Internal server error",
                           ids |-> << >>, plans |-> << >>]
                     ELSE [status |-> 200,
                           ids |-> limited,
                           plans |-> [pid \in { limited[i] : i \in 1..Len(limited) } |->
                                        ForFrontend(plan_info(pid))]])
    /\ UNCHANGED outsideReads

\* get_workout_plan, api/plans.py lines 30-60: the index is read, then the
\* plan's file; a missing file gives 404; the 404 raised for an id that is
\* not in the index is caught by "except Exception" and becomes a 500
GetWorkoutPlan(plan_id) ==
    /\ ReadIdle
    /\ dresp' =
         [op |-> "get_workout_plan", plan_id |-> plan_id] @@
         (IF IndexFile \notin DOMAIN files
          THEN [status |-> 404, detail |-> "Plan file not found"]
          ELSE IF plan_id \notin DOMAIN files[IndexFile].plans
          THEN [status |-> 500,
                detail |-> "Error loading plan: 404: Plan '" \o plan_id \o "' not found"]
          ELSE IF PlanFile(files[IndexFile].plans[plan_id].file_path) \notin DOMAIN files
          THEN [status |-> 404, detail |-> "Plan file not found"]
          ELSE [status |-> 200,
                metadata |-> files[IndexFile].plans[plan_id],
                plan |-> files[PlanFile(files[IndexFile].plans[plan_id].file_path)]])
    /\ UNCHANGED outsideReads

\* railway_main.get_plan, lines 194-197: every id is answered with 503
RailwayGetPlan(plan_id) ==
    /\ ReadIdle
    /\ dresp' = [op |-> "get_plan", plan_id |-> plan_id, status |-> 503,
                 detail |-> "Database not available in test mode"]
    /\ UNCHANGED outsideReads

\* IntegratedWorkoutPlanner.get_user_plans, lines 289-300: the rows of the
\* user, whatever is_active says; nothing without a client or when the
\* query fails
UserPlans(t, user_id, reached) ==
    LET mine(row) == Get(row, "user_id", "") = user_id
    IN  IF supabase /\ reached THEN SelectSeq(t, mine) ELSE << >>

\* railway_main.get_user_plans, lines 170-191: the 503 raised inside the try
\* block for a missing planner is caught by "except Exception" and answered
\* as a 500
RailwayGetUserPlans(user_id, reached) ==
    /\ ReadIdle
    /\ dresp' =
         [op |-> "get_user_plans", user_id |-> user_id] @@
         (IF planner = "none"
          THEN [status |-> 500,
                detail |-> "Error retrieving user plans: 503: Integrated planner not available"]
          ELSE [status |-> 200, plans |-> UserPlans(table, user_id, reached)])
    /\ UNCHANGED outsideReads

\* the store and the data files as the read endpoints may find them
ReadInit ==
    /\ table \in Tables
    /\ nextId = Len(table) + 1
    /\ files \in FileSystems
    /\ ReadIdle

ReadNext ==
    \/ \E category \in {"", "strength"}, difficulty \in {"", "beginner"},
          plan_type \in {"", "default"}, limit \in {-1, 0, 1, 20},
          reached \in BOOLEAN, lost \in { {}, {"p1"} }, oldest \in BOOLEAN,
          unset \in { None, << >> } :
            DiscoverWorkoutPlans(category, difficulty, plan_type, limit,
                                 reached, lost, oldest, unset)
    \/ \E plan_id \in {"p1", "p2", "p9"} : GetWorkoutPlan(plan_id)
    \/ \E plan_id \in {"p1", "p2", "p9"} : RailwayGetPlan(plan_id)
    \/ \E user_id \in {"test_user_123"}, reached \in BOOLEAN :
          RailwayGetUserPlans(user_id, reached)

\* an exercise as a stage writes it
Squat == [name |-> "Squat", sets |-> "4", reps |-> "6-8", notes |-> "Keep chest up"]

\* one (day, exercises) pair of a nested dict
Day(day, exercises) == [day |-> day, exercises |-> exercises]

\* what _integrate_plan may be handed as the Fitness stage's output: no
\* key at all, a "days" dict, the organized day keys, an "exercises" dict,
\* each with full, empty and malformed values, and the output of
\* FitnessAgent.process itself
FitnessOutputs ==
    { << >>,
      "days" :> Dict(<< Day("Push", List(<< Squat, Text("Plank") >>)),
                        Day("Rest", List(<< >>)) >>),
      "days" :> Dict(<< Day("Push", List(<< >>)) >>),
      "days" :> Dict(<< >>),
      "days" :> None,
      "days" :> Dict(<< Day("Push", None) >>),
      ("days" :> Dict(<< Day("Push", List(<< >>)) >>))
         @@ ("exercises" :> Dict(<< Day("Pull", List(<< Squat >>)) >>)),
      "exercises" :> Dict(<< Day("Pull", List(<< Squat >>)),
                             Day("Rest", List(<< >>)) >>),
      "exercises" :> Dict(<< Day("Rest", List(<< >>)) >>),
      "exercises" :> Dict(<< >>),
      "exercises" :> None,
      "exercises" :> List(<< Squat >>),
      "exercises" :> Dict(<< Day("Pull", None) >>),
      "Full Body A" :> List(<< >>),
      ("Full Body A" :> List(<< Squat >>))
         @@ ("weekly_split" :> List(<< Text("Mon: Full Body A"), Text("Tue: Rest") >>))
         @@ ("training_principles" :> List(<< Text("Progressive overload") >>))
         @@ ("progression" :> None),
      ("Foundation Phase" :> List(<< Text("Pelvic tilts") >>))
         @@ ("recovery_protocols" :> None) }
    \cup { FitnessPlan(ResearchFindings(request, TRUE), request.goals,
                       request.constraints) : request \in OrchRequests }

\* every call stands before _integrate_plan (line 128) with some output of
\* the Fitness stage and the other stages' outputs for its request
ReshapeInit ==
    /\ opc = [g \in Calls |-> "between"]
    /\ ostep = [g \in Calls |-> Len(Phases) + 1]
    /\ olog = [g \in Calls |-> << >>]
    /\ oreq \in [Calls -> OrchRequests]
    /\ ofit \in [Calls -> FitnessOutputs]
    /\ ores = [g \in Calls |-> ResearchFindings(oreq[g], TRUE)]
    /\ onut = [g \in Calls |-> NutritionPlan(oreq[g].goals)]
    /\ omot = [g \in Calls |-> MotivationPlan]
    /\ osafe = [g \in Calls |->
                  SafetyReport(FitnessPlan(ores[g], oreq[g].goals, oreq[g].constraints),
                               onut[g], oreq[g].constraints, ores[g])]
    /\ odoc = [g \in Calls |-> None]

ReshapeNext ==
    \/ \E g \in Calls, llm_ok \in BOOLEAN : Integrate(g, llm_ok)
    \/ \E g \in Calls : IntegrateRaises(g)

\* the most constraints of a request
MaxConstraints == 2

\* the constraints a request may name: two the safety stage rates high-risk
\* and one it does not know
ConstraintNames == {"diastasis_recti", "hypertension", "knee_pain"}

ConstraintLists == UNION { [1..n -> ConstraintNames] : n \in 0..MaxConstraints }

\* the fitness plans the safety stage is handed: the Fitness stage's own
\* output and plans with an "exercises" mapping, one of them with exercises
\* the contraindication table lists
SafetyFitnessPlans ==
    { FitnessPlan(ResearchFindings(request, TRUE), request.goals, request.constraints) :
         request \in { r \in OrchRequests : r.constraints = << >> } }
    \cup { ("exercises" :> Dict(<< Day("Core", List(<< Text("Sit-ups"), Squat >>)),
                                 Day("Strength",
                                     List(<< [name |-> "Heavy lifting", sets |-> "5",
                                              reps |-> "3"] >>)) >>))
             @@ ("progression" :> None),
           "exercises" :> Dict(<< Day("Pull", List(<< Squat >>)) >>) }

\* every call stands in the safety stage (line 117), with the plans of the
\* earlier stages and the constraints of its request
SafetyInit ==
    /\ opc = [g \in Calls |-> "in"]
    /\ ostep = [g \in Calls |-> Len(Phases)]
    /\ olog = [g \in Calls |-> << >>]
    /\ \E constraints \in [Calls -> ConstraintLists] :
          oreq = [g \in Calls |->
                    [population |-> Chars.weight_loss,
                     goals |-> << Chars.fat_loss, Chars.endurance >>,
                     constraints |-> constraints[g],
                     timeline |-> "12_weeks", fitness_level |-> "beginner"]]
    /\ ofit \in [Calls -> SafetyFitnessPlans]
    /\ ores = [g \in Calls |-> ResearchFindings(oreq[g], TRUE)]
    /\ onut = [g \in Calls |-> NutritionPlan(oreq[g].goals)]
    /\ omot = [g \in Calls |-> MotivationPlan]
    /\ osafe = [g \in Calls |-> None]
    /\ odoc = [g \in Calls |-> None]

SafetyNext == \E g \in Calls : SafetyReturn(g)

\* the most tokens of a text that is parsed
MaxText == 4

\* the tokens of the texts: the braces, prose, and members over two keys
Alphabet ==
    {LBrace, RBrace, Prose}
    \cup { Member(k, v) : k \in {"a", "1"}, v \in { <<"x">>, <<"y">> } }

\* response.choices[0].message.content (line 161): any text
Texts == UNION { [1..n -> Alphabet] : n \in 0..MaxText }

\* one request has been received and its LLM call is under way
ParseInit ==
    /\ now = 0
    /\ files = << >>
    /\ planner = "ready"
    /\ supabase = FALSE
    /\ hpc = [r \in Requests |-> IF r = "r1" THEN "generating" ELSE "idle"]
    /\ \E body \in Bodies :
          hreq = [r \in Requests |-> IF r = "r1" THEN body ELSE NoBody]
    /\ hllm = [r \in Requests |-> << >>]
    /\ hclk = [r \in Requests |-> 0]
    /\ hplan = [r \in Requests |-> None]
    /\ hrow = [r \in Requests |-> 0]
    /\ hresp = [r \in Requests |-> NoResponse]

ParseNext ==
    \E r \in Requests, c \in Texts : LLMReturns(r, c)

----------------------------------------------------------------------------
(* POST /plan/{user_id}/regenerate, on the SQL database of the app *)

\* the regeneration requests that may be served at once
RegenRequests == {"q1", "q2"}

\* the ids of the rows of the users table
UserIds == {"1", "2"}

\* the user ids a request may carry in its path: those and an unknown one
PathIds == UserIds \cup {"9"}

\* a row of the SQL workout_plans table (models.WorkoutPlan)
WorkoutPlanRow(user_id, goal_type) ==
    [user_id |-> user_id, goal_type |-> goal_type, week_plan |-> <<"Mon">>]

\* the rows a user may have: none, one, or two (user_id is not unique)
UserRows(u) ==
    { << >>, << WorkoutPlanRow(u, "strength") >>,
      << WorkoutPlanRow(u, "strength"), WorkoutPlanRow(u, "weight_loss") >> }

\* no regeneration request was received; the module imported its manager
RegenIdle ==
    /\ uplan = [u \in UserIds |-> << >>]
    /\ manager = TRUE
    /\ gpc = [q \in RegenRequests |-> "idle"]
    /\ greq = [q \in RegenRequests |-> ""]
    /\ gold = [q \in RegenRequests |-> << >>]
    /\ gresp = [q \in RegenRequests |-> 0]

\* lines 18-23 and the tables as the handler may find them
RegenInit ==
    /\ \E rows \in [UserIds -> UNION { UserRows(u) : u \in UserIds }] :
          /\ \A u \in UserIds : rows[u] \in UserRows(u)
          /\ uplan = rows
    /\ manager \in BOOLEAN
    /\ gpc = [q \in RegenRequests |-> "idle"]
    /\ greq = [q \in RegenRequests |-> ""]
    /\ gold = [q \in RegenRequests |-> << >>]
    /\ gresp = [q \in RegenRequests |-> 0]

\* the handler's answer; every exception, an HTTPException with another
\* status among them, is caught at lines 573-575 and answered 500
RegenAnswer(q, status) ==
    /\ gresp' = [gresp EXCEPT ![q] = status]
    /\ gpc' = [gpc EXCEPT ![q] = "done"]

\* lines 470-472 and 573-575: no user has this id; the 404 is raised inside
\* the try block
RegenUserMissing(q, user_id) ==
    /\ gpc[q] = "idle"
    /\ user_id \notin UserIds
    /\ greq' = [greq EXCEPT ![q] = user_id]
    /\ RegenAnswer(q, 500)
    /\ UNCHANGED <<uplan, manager, gold>>
    /\ UNCHANGED outsideRegen

\* lines 470-472: the user is found
RegenReceive(q, user_id) ==
    /\ gpc[q] = "idle"
    /\ user_id \in UserIds
    /\ greq' = [greq EXCEPT ![q] = user_id]
    /\ gold' = [gold EXCEPT ![q] = uplan[user_id]]
    /\ gpc' = [gpc EXCEPT ![q] = "found"]
    /\ UNCHANGED <<uplan, manager, gresp>>
    /\ UNCHANGED outsideRegen

\* lines 475-478: scalar_one_or_none() raises MultipleResultsFound when the
\* user has more than one row
RegenSelectRaises(q) ==
    /\ gpc[q] = "found"
    /\ Len(uplan[greq[q]]) > 1
    /\ RegenAnswer(q, 500)
    /\ UNCHANGED <<uplan, manager, greq, gold>>
    /\ UNCHANGED outsideRegen

\* lines 475-483: the user's row, if any, is deleted and the delete is
\* committed, before anything is generated
RegenDelete(q) ==
    /\ gpc[q] = "found"
    /\ Len(uplan[greq[q]]) <= 1
    /\ uplan' = [uplan EXCEPT ![greq[q]] = << >>]
    /\ gpc' = [gpc EXCEPT ![q] = "generating"]
    /\ UNCHANGED <<manager, greq, gold, gresp>>
    /\ UNCHANGED outsideRegen

\* lines 486-519: with the manager imported, the call of
\* workout_plan_manager.generate_workout_plan raises (WorkoutPlanManager has
\* no such method, nor translate_ai_response), and the handler's except
\* branch raises in turn, at create_fallback_plan or at its own
\* HTTPException(500); without the manager the else branch raises at
\* create_fallback_plan or at its HTTPException(503). Lines 521-571, which
\* store the new plan, are never reached.
RegenGenerateRaises(q) ==
    /\ gpc[q] = "generating"
    /\ RegenAnswer(q, 500)
    /\ UNCHANGED <<uplan, manager, greq, gold>>
    /\ UNCHANGED outsideRegen

RegenNext ==
    \/ \E q \in RegenRequests, user_id \in PathIds : RegenUserMissing(q, user_id)
    \/ \E q \in RegenRequests, user_id \in PathIds : RegenReceive(q, user_id)
    \/ \E q \in RegenRequests : RegenSelectRaises(q)
    \/ \E q \in RegenRequests : RegenDelete(q)
    \/ \E q \in RegenRequests : RegenGenerateRaises(q)

----------------------------------------------------------------------------
(* The auth service and the auth routes *)

\* An access token is the sequence of the pieces of its text. A token of
\* the auth provider is a JWT: its header, the user id in its payload and
\* its signature, which is good when the provider made it.
LocalPrefix == "local_token_"

Jwt(sub, signature) == << "eyJ", sub, signature >>

\* f"local_token_{local_user_id}" with local_user_id = f"local_{hex}"
LocalToken(hex) == << LocalPrefix, "local_" \o hex >>

\* the rows of the users table: one user who signed up with the provider,
\* one whom the fallback sign-up gave a local id
DbUsers ==
    { [id |-> "1", email |-> "ann@example.com", supabase_user_id |-> "uid1"],
      [id |-> "2", email |-> "bob@example.com", supabase_user_id |-> "local_ab"] }

\* the accounts of the auth provider
ProviderAccounts ==
    { [email |-> "ann@example.com", password |-> "right", id |-> "uid1"] }

\* uuid.uuid4().hex
Hexes == {"ab", "cd", "ef"}

\* the tokens the sign-ups of the users returned
SignUpTokens == { Jwt("uid1", "good"), LocalToken("ab") }

\* token strings that nobody issued, made by a caller
SelfMade ==
    { << LocalPrefix, "uid1" >>, << LocalPrefix, "nobody" >>, << LocalPrefix >>,
      Jwt("uid1", "bad") }

AuthIdle ==
    /\ authcfg = [secret |-> FALSE, client |-> TRUE]
    /\ issued = {}
    /\ aresp = None

\* settings.SUPABASE_JWT_SECRET set or not; create_client works or raises
AuthInit ==
    /\ authcfg \in [secret : BOOLEAN, client : BOOLEAN]
    /\ issued = SignUpTokens
    /\ aresp = None

RECURSIVE Joined(_)

\* str.join of the pieces
Joined(pieces) ==
    IF pieces = << >> THEN "" ELSE Head(pieces) \o Joined(Tail(pieces))

\* the provider, or jwt.decode with the provider's secret, accepts a token
ProviderValid(token) ==
    Len(token) = 3 /\ token[1] = "eyJ" /\ token[3] = "good"

\* SupabaseAuthService.verify_token: a token that starts with "local_token_"
\* is taken as its own proof, its user id being the text with every
\* "local_token_" removed; another token goes to the provider's get_user
\* (no secret set) or to jwt.decode, and an exception there gives None
VerifyToken(token) ==
    IF token # << >> /\ Head(token) = LocalPrefix
    THEN LET other(piece) == piece # LocalPrefix
         IN  [sub |-> Joined(SelectSeq(token, other))]
    ELSE IF ~authcfg.secret /\ ~authcfg.client THEN None
    ELSE IF ProviderValid(token) THEN [sub |-> token[2]]
    ELSE None

\* routes/auth.py get_current_user, lines 37-67: the user whose
\* supabase_user_id is the "sub" of the verified token
CurrentUser(token) ==
    LET token_data == VerifyToken(token)
    IN  IF token_data = None \/ token_data.sub = "" THEN None
        ELSE IF \E u \in DbUsers : u.supabase_user_id = token_data.sub
        THEN CHOOSE u \in DbUsers : u.supabase_user_id = token_data.sub
        ELSE None

\* a request with "Authorization: Bearer <token>"
GetCurrentUser(token) ==
    /\ aresp' = [op |-> "current_user", token |-> token,
                 token_data |-> VerifyToken(token), user |-> CurrentUser(token)]
    /\ UNCHANGED <<authcfg, issued>>
    /\ UNCHANGED outsideAuth

\* SupabaseAuthService.sign_in_with_email, lines 138-195: the access token of
\* the session it returns. Without a client, and when sign_in_with_password
\* raises (wrong password, unknown account, provider not reachable), it
\* returns a session with a fresh local token
SignInWithEmail(email, password, reachable, hex) ==
    IF ~authcfg.client \/ ~reachable THEN LocalToken(hex)
    ELSE IF \E a \in ProviderAccounts : a.email = email /\ a.password = password
    THEN Jwt((CHOOSE a \in ProviderAccounts : a.email = email).id, "good")
    ELSE LocalToken(hex)

\* routes/auth.py sign_in, lines 225-264: 401 for an email that is not in
\* the users table, else the service's session is returned
SignIn(email, password, reachable, hex) ==
    /\ LET known == \E u \in DbUsers : u.email = email
           token == SignInWithEmail(email, password, reachable, hex)
           accepted == /\ authcfg.client /\ reachable
                       /\ \E a \in ProviderAccounts :
                             a.email = email /\ a.password = password
       IN  IF ~known
           THEN /\ aresp' = [op |-> "signin", email |-> email, status |-> 401,
                             access_token |-> None, accepted |-> accepted]
                /\ UNCHANGED issued
           ELSE IF token = None
           THEN /\ aresp' = [op |-> "signin", email |-> email, status |-> 400,
                             access_token |-> None, accepted |-> accepted]
                /\ UNCHANGED issued
           ELSE /\ aresp' = [op |-> "signin", email |-> email, status |-> 200,
                             access_token |-> token, accepted |-> accepted]
                /\ issued' = issued \cup {token}
    /\ UNCHANGED authcfg
    /\ UNCHANGED outsideAuth

AuthNext ==
    \/ \E email \in {"ann@example.com", "bob@example.com", "eve@example.com"},
          password \in {"right", "wrong"}, reachable \in BOOLEAN, hex \in Hexes :
            SignIn(email, password, reachable, hex)
    \/ \E token \in issued \cup SelfMade : GetCurrentUser(token)

AppIdle == RegenIdle /\ AuthIdle

----------------------------------------------------------------------------
(* The specifications *)

InitStore ==
    /\ TableInit /\ StoreInit /\ GenIdle /\ planner = "none" /\ supabase = FALSE
    /\ OrchInit /\ ReadIdle /\ AppIdle

SpecStore == InitStore /\ [][StoreNext]_vars

Init ==
    /\ TableInit /\ StoreInit /\ GenInit /\ OrchInit /\ ReadIdle /\ AppIdle

Next == GenNext

Spec == Init /\ [][Next]_vars

InitOrch ==
    /\ TableInit /\ StoreInit /\ GenIdle /\ planner = "none" /\ supabase = FALSE
    /\ OrchInit /\ ReadIdle /\ AppIdle

SpecOrch == InitOrch /\ [][OrchNext]_vars

InitReshape ==
    /\ TableInit /\ StoreInit /\ GenIdle /\ planner = "none" /\ supabase = FALSE
    /\ ReshapeInit /\ ReadIdle /\ AppIdle

SpecReshape == InitReshape /\ [][ReshapeNext]_vars

InitRead ==
    /\ StoreInit /\ now = 0 /\ planner = "none" /\ supabase = FALSE
    /\ hpc = [r \in Requests |-> "idle"]
    /\ hreq = [r \in Requests |-> NoBody]
    /\ hllm = [r \in Requests |-> << >>]
    /\ hclk = [r \in Requests |-> 0]
    /\ hplan = [r \in Requests |-> None]
    /\ hrow = [r \in Requests |-> 0]
    /\ hresp = [r \in Requests |-> NoResponse]
    /\ OrchInit /\ ReadInit /\ AppIdle

SpecRead == InitRead /\ [][ReadNext]_vars

InitParse ==
    /\ TableInit /\ StoreInit /\ ParseInit /\ OrchInit /\ ReadIdle /\ AppIdle

SpecParse == InitParse /\ [][ParseNext]_vars

\* the data files of a deployment with a catalog, and of one without
ServiceFiles ==
    { f \in FileSystems : CatalogFile \in DOMAIN f => IndexFile \in DOMAIN f }

InitSafety ==
    /\ TableInit /\ StoreInit /\ GenIdle /\ planner = "none" /\ supabase = FALSE
    /\ SafetyInit /\ ReadIdle /\ AppIdle

SpecSafety == InitSafety /\ [][SafetyNext]_vars

InitRegen ==
    /\ TableInit /\ StoreInit /\ GenIdle /\ planner = "none" /\ supabase = FALSE
    /\ OrchInit /\ ReadIdle /\ RegenInit /\ AuthIdle

SpecRegen == InitRegen /\ [][RegenNext]_vars

InitAuth ==
    /\ TableInit /\ StoreInit /\ GenIdle /\ planner = "none" /\ supabase = FALSE
    /\ OrchInit /\ ReadIdle /\ RegenIdle /\ AuthInit

SpecAuth == InitAuth /\ [][AuthNext]_vars

\* every operation of the service, on one table and one set of data files
InitService ==
    /\ TableInit /\ StoreInit /\ OrchInit /\ ReadIdle /\ AppIdle
    /\ now = 0
    /\ files \in ServiceFiles
    /\ \/ planner = "ready" /\ supabase \in BOOLEAN
       \/ planner = "none" /\ supabase = FALSE
    /\ hpc = [r \in Requests |-> "idle"]
    /\ hreq = [r \in Requests |-> NoBody]
    /\ hllm = [r \in Requests |-> << >>]
    /\ hclk = [r \in Requests |-> 0]
    /\ hplan = [r \in Requests |-> None]
    /\ hrow = [r \in Requests |-> 0]
    /\ hresp = [r \in Requests |-> NoResponse]

\* the plan ids a caller of the adapter may name: one it chose, and those
\* of the rows in the table
ServiceIds == {"p1"} \cup { table[i].plan_id : i \in 1..Len(table) }

\* one generation request, one writer of the adapter and one read request,
\* in any order
ServiceNext ==
    \/ \E r \in {"r1"}, body \in {CHOOSE b \in Bodies : TRUE} : ReceiveNoPlanner(r, body)
    \/ \E r \in {"r1"}, body \in {CHOOSE b \in Bodies : TRUE} : Receive(r, body)
    \/ \E r \in {"r1"} : LLMRaises(r)
    \/ \E r \in {"r1"}, c \in {FullReply} : LLMReturns(r, c)
    \/ \E r \in {"r1"} : StoreOk(r)
    \/ \E r \in {"r1"} : StoreFails(r)
    \/ \E r \in {"r1"} : SaveLocalOk(r)
    \/ \E r \in {"r1"} : SaveLocalFails(r)
    \/ \E w \in {"w1"}, pid \in {"p1"}, data \in {CHOOSE d \in PlanDatas : TRUE} :
          StoreBegin(w, pid, data)
    \/ \E w \in {"w1"} : StoreInsert(w)
    \/ \E w \in {"w1"} : StoreFail(w)
    \/ \E pid \in ServiceIds : GetPlan(pid)
    \/ \E pid \in {"p1"}, reached \in BOOLEAN : GetPlanNone(pid, reached)
    \/ \E pid \in {"p1"} : DeactivatePlan(pid)
    \/ \E pid \in {"p1"} : DeactivateFail(pid)
    \/ \E pid \in {"p1"}, data \in {CHOOSE d \in PlanDatas : TRUE} : UpdatePlan(pid, data)
    \/ \E pid \in {"p1"} : DeletePlan(pid)
    \/ \E category \in {"", "strength"}, reached \in BOOLEAN,
          unset \in { None, << >> } :
            DiscoverWorkoutPlans(category, "", "", 20, reached, {}, TRUE, unset)
    \/ \E plan_id \in {"p1"} : GetWorkoutPlan(plan_id)
    \/ \E plan_id \in {"p1"} : RailwayGetPlan(plan_id)
    \/ \E user_id \in {"test_user_123"}, reached \in BOOLEAN :
          RailwayGetUserPlans(user_id, reached)

SpecService == InitService /\ [][ServiceNext]_vars

----------------------------------------------------------------------------
(* Claims about the persistence adapter, checked under SpecStore *)

\* C5 (as claimed): a get_plan that immediately follows a successful
\* store_plan of the same plan_id, and reaches the store, returns exactly
\* the plan_data just stored, whatever the table held before.
C5_RoundTrip ==
    (lastOp.op = "get" /\ lastOp.reached /\ lastOp.stored # None)
        => lastOp.result = lastOp.stored

\* C6: when deactivate_plan succeeds, the plan_id is absent from what
\* get_all_plans returns, and every row of that plan_id is still in the
\* table, inactive, with its id and plan_data unchanged; no other row changes.
C6_DeactivateKeepsRow ==
    [][\A pid \in PlanIds :
          (DeactivatePlan(pid) /\ lastOp'.ok) =>
             /\ pid \notin DOMAIN GetAllPlansResult(table')
             /\ Len(table') = Len(table)
             /\ \E i \in 1..Len(table) : table[i].plan_id = pid
             /\ \A i \in 1..Len(table) :
                   IF table[i].plan_id = pid
                   THEN /\ i <= Len(table')
                        /\ table'[i] = [table[i] EXCEPT !.is_active = FALSE]
                        /\ ~table'[i].is_active
                   ELSE i <= Len(table') /\ table'[i] = table[i]]_vars

\* C6 witness: a successful deactivation has left an inactive row behind.
C6_Witness ==
    /\ lastOp.op = "deactivate" /\ lastOp.ok
    /\ \E i \in 1..Len(table) :
          table[i].plan_id = lastOp.pid /\ ~table[i].is_active

\* C7: a store_plan whose insert reaches the store is never rejected, whatever
\* records the table already holds: the call succeeds and the table gains one
\* more active row with the caller's plan_id and plan_data.
C7_InsertNeverRejected ==
    [][\A w \in Writers :
          (wpc[w] = "inserting" /\ wpc'[w] = "idle" /\ lastOp'.reached) =>
             /\ lastOp'.ok
             /\ table' = Append(table, [id |-> nextId,
                                        plan_id |-> warg[w].plan_id,
                                        plan_data |-> warg[w].plan_data,
                                        metadata |-> warg[w].metadata,
                                        is_active |-> TRUE])]_vars

\* C7 witness: two store_plan calls for one plan_id overlapped in time, both
\* succeeded, and two active rows now carry that plan_id.
C7_Witness ==
    /\ lastOp.op = "store" /\ lastOp.ok /\ lastOp.overlap
    /\ \E i, j \in 1..Len(table) :
          /\ i # j
          /\ table[i].plan_id = lastOp.pid /\ table[j].plan_id = lastOp.pid
          /\ table[i].is_active /\ table[j].is_active

----------------------------------------------------------------------------
(* Claims about plan generation over HTTP, checked under Spec *)

RequiredKeys ==
    { "overview", "weekly_split", "global_rules", "days",
      "conditioning_and_recovery", "nutrition", "execution_checklist" }

\* the keys the planner adds to what the LLM returned
MetadataKeys ==
    { "plan_id", "generation_method", "user_id", "created_at", "status",
      "database_id" }

Answered(r) == hpc[r] = "done"

Succeeded(r) == Answered(r) /\ hresp[r].status = 200

\* C1: every plan document that is returned contains all seven top-level
\* keys overview, weekly_split, global_rules, days,
\* conditioning_and_recovery, nutrition and execution_checklist.
C1_SevenKeys ==
    \A r \in Requests :
        Succeeded(r) => RequiredKeys \subseteq DOMAIN hresp[r].plan

\* C3: when a generation request ends in an error, no plan record of that
\* request exists in the store.
C3_FailedStoresNothing ==
    \A r \in Requests :
        (Answered(r) /\ hresp[r].status # 200) =>
            \A i \in 1..Len(table) : table[i].id # hrow[r]

MembersOf(c) ==
    LET txt == Slice(c, FindOpen(c), RFindClose(c) + 1)
    IN  { txt[i] : i \in 2..(Len(txt) - 1) }

C9_SevenDays ==
    \A r \in Requests :
        Succeeded(r) =>
            /\ "weekly_split" \in DOMAIN hresp[r].plan
            /\ Len(hresp[r].plan["weekly_split"]) = 7

\* C10: the plan identifier returned to the caller is determined by the
\* population and the first two goals: two requests that agree on them get
\* the same identifier.
C10_SameGoalsSameId ==
    \A r1, r2 \in Requests :
        (Succeeded(r1) /\ Succeeded(r2)
                /\ hreq[r1].population = hreq[r2].population
                /\ SubSeq(hreq[r1].goals, 1, 2) = SubSeq(hreq[r2].goals, 1, 2))
            => hresp[r1].plan_id = hresp[r2].plan_id

----------------------------------------------------------------------------
(* Claims about the five-stage orchestrator, checked under SpecOrch *)

\* the events of a generation call in which every stage returns
FullRun ==
    << [ev |-> "call", stage |-> "research"],
       [ev |-> "return", stage |-> "research"],
       [ev |-> "call", stage |-> "fitness"],
       [ev |-> "return", stage |-> "fitness"],
       [ev |-> "call", stage |-> "nutrition"],
       [ev |-> "return", stage |-> "nutrition"],
       [ev |-> "call", stage |-> "motivation"],
       [ev |-> "return", stage |-> "motivation"],
       [ev |-> "call", stage |-> "safety"],
       [ev |-> "return", stage |-> "safety"] >>

\* C2: within one generation call the stages are called in the order
\* Research, Fitness, Nutrition, Motivation, Safety, each once and each only
\* after the one before it has returned; after a stage raises nothing more is
\* called, and a call that returns a plan has run all five.
C2_StagesInOrder ==
    \A g \in Calls :
        LET log == olog[g]
        IN  /\ Len(log) <= Len(FullRun)
            /\ \A i \in 1..Len(log) :
                  \/ log[i] = FullRun[i]
                  \/ /\ log[i] = [ev |-> "raise", stage |-> FullRun[i].stage]
                     /\ FullRun[i].ev = "return"
                     /\ i = Len(log)
                     /\ opc[g] = "failed"
            /\ opc[g] = "done" => log = FullRun
            /\ opc[g] = "failed" =>
                  Len(log) > 0 /\ log[Len(log)].ev = "raise"

\* one call ran all five stages and returned its plan while another, running
\* at the same time, failed in its third stage
C2_Witness ==
    \E g1, g2 \in Calls :
        /\ opc[g1] = "done" /\ olog[g1] = FullRun
        /\ opc[g2] = "failed" /\ Len(olog[g2]) = 6
        /\ olog[g2][6] = [ev |-> "raise", stage |-> "nutrition"]

\* the names of the exercises in the training days of a fitness plan
PlanExercises(fitness_plan) ==
    UNION { { fitness_plan[k].list[i].name :
                i \in { j \in 1..Len(fitness_plan[k].list) :
                           "name" \in DOMAIN fitness_plan[k].list[j] } } :
            k \in DOMAIN fitness_plan }

\* C4: for every constraint c of the request and every exercise e of the
\* Fitness stage's plan that the contraindication table lists under c, the
\* safety report's contraindications hold an entry for (e, c); and every
\* entry is an exercise of the plan listed under a constraint of the request.
C4_ListedExercisesFlagged ==
    \A g \in Calls :
        osafe[g] # None =>
            LET flagged == osafe[g].contraindications
                constraints == oreq[g].constraints
            IN  /\ \A c \in 1..Len(constraints) :
                      \A e \in PlanExercises(ofit[g]) :
                          In(e, Contraindicated(constraints[c])) =>
                              \E i \in 1..Len(flagged) :
                                  /\ flagged[i].exercise = e
                                  /\ flagged[i].condition = constraints[c]
                /\ \A i \in 1..Len(flagged) :
                      /\ In(flagged[i].condition, constraints)
                      /\ flagged[i].exercise \in PlanExercises(ofit[g])
                      /\ In(flagged[i].exercise, Contraindicated(flagged[i].condition))

----------------------------------------------------------------------------
(* Claims about the reshaping of the stages' outputs *)

\* C11: every document generate_health_plan returns has a days mapping with
\* at least one day, whatever the Fitness stage's output was; a call that
\* does not return a document has failed with an error.
C11_DaysNeverEmpty ==
    \A g \in Calls :
        /\ opc[g] = "done" =>
              /\ odoc[g] # None
              /\ DOMAIN odoc[g].plan.days # {}
        /\ opc[g] = "failed" => odoc[g] = None

\* C11 witness: a document was returned for a Fitness output that has no day
\* with an exercise, and it carries the default day; another call got an
\* output whose "days" is no mapping and failed.
C11_Witness ==
    \E g1, g2 \in Calls :
        /\ opc[g1] = "done"
        /\ ofit[g1] = ("days" :> Dict(<< Day("Push", List(<< >>)) >>))
        /\ DOMAIN odoc[g1].plan.days = {"Full Body A"}
        /\ opc[g2] = "failed"
        /\ ofit[g2] = ("days" :> None)

----------------------------------------------------------------------------
(* Claims about the LLM reply on the generation path *)

\* the LLM call of a request raised, or returned text that holds no JSON
\* object
LLMFailed(r) ==
    \/ hresp[r].cause = "LLM call failed"
    \/ hllm[r] # << >> /\ ~ExtractPlan(hllm[r]).ok

\* C12: a generation request whose LLM call raised or returned unparseable
\* text is still answered with a complete plan document, not with an error.
C12_LLMFailureStillPlan ==
    \A r \in Requests :
        Answered(r) /\ LLMFailed(r) =>
            /\ hresp[r].status = 200
            /\ RequiredKeys \subseteq DOMAIN hresp[r].plan

----------------------------------------------------------------------------
(* Claims about the extraction of the JSON object from a text *)

\* the reply of a request has been handled
Parsed(r) == hpc[r] \notin {"idle", "generating"}

\* the positions of a token in a text
Positions(c, token) == { i \in 1..Len(c) : c[i] = token }

\* the text from its first opening brace to its last closing brace
Braced(c) ==
    LET first == CHOOSE i \in Positions(c, LBrace) :
                    \A j \in Positions(c, LBrace) : i <= j
        last == CHOOSE i \in Positions(c, RBrace) :
                    \A j \in Positions(c, RBrace) : i >= j
    IN  [i \in 1..(IF last >= first THEN last - first + 1 ELSE 0) |->
            c[first + i - 1]]

\* C13: a text without an opening brace, without a closing brace, or whose
\* part from the first opening to the last closing brace is not a JSON
\* object, gives an error and no mapping; any other text gives the mapping
\* that this part denotes (with the planner's metadata added).
C13_ExtractJson ==
    \A r \in Requests :
        Parsed(r) =>
            LET c == hllm[r]
            IN  IF \/ Positions(c, LBrace) = {}
                   \/ Positions(c, RBrace) = {}
                   \/ ~IsJsonObject(Braced(c))
                THEN /\ hresp[r].status = 500
                     /\ hresp[r].cause \in {"ValueError", "JSONDecodeError"}
                     /\ hplan[r] = None
                ELSE /\ hplan[r] # None
                     /\ DOMAIN hplan[r] \ MetadataKeys = DOMAIN JsonLoads(Braced(c))
                     /\ \A k \in DOMAIN JsonLoads(Braced(c)) :
                           hplan[r][k] = JsonLoads(Braced(c))[k]

\* C13 witness: an object wrapped in prose was parsed
C13_Witness ==
    \E r \in Requests :
        /\ Parsed(r)
        /\ hllm[r] = << Prose, LBrace, Member("a", <<"x">>), RBrace >>
        /\ hplan[r] # None
        /\ hplan[r]["a"] = <<"x">>

\* the dicts that are serialised: up to two entries with distinct keys
Mappings ==
    LET keys == { StrKey("a"), StrKey("1"), IntKey(1) }
        entries == { [key |-> k, val |-> v] : k \in keys, v \in { <<"x">>, <<"y">> } }
        pairs == { << e, f >> : e \in entries, f \in entries }
    IN  { << >> } \cup { << e >> : e \in entries }
        \cup { p \in pairs : p[1].key # p[2].key }

\* a dict as the mapping from its keys to its values
PyDict(entries) ==
    LET at(k) == CHOOSE i \in 1..Len(entries) : entries[i].key = k
    IN  [k \in { entries[i].key : i \in 1..Len(entries) } |-> entries[at(k)].val]

\* what was parsed for a request, without the planner's metadata: a dict
\* whose keys are all str
Loaded(r) ==
    [k \in { StrKey(s) : s \in DOMAIN hplan[r] \ MetadataKeys } |-> hplan[r][k.text]]

OnlyStrKeys(entries) == \A i \in 1..Len(entries) : entries[i].key.kind = "str"

\* C14 as stated: for every dict x that json.dumps accepts (no braces in
\* its values), the mapping extracted from the serialised text of x equals x.
C14_RoundTripAnyDict ==
    \A r \in Requests, x \in Mappings :
        Parsed(r) /\ hllm[r] = DumpsText(x) =>
            /\ hplan[r] # None
            /\ Loaded(r) = PyDict(x)

\* C14 amended: for every dict x whose keys are all strings (no braces in
\* its values), the mapping extracted from the serialised text of x equals x.
C14_RoundTripStrKeys ==
    \A r \in Requests, x \in Mappings :
        Parsed(r) /\ OnlyStrKeys(x) /\ hllm[r] = DumpsText(x) =>
            /\ hplan[r] # None
            /\ Loaded(r) = PyDict(x)

\* C14 witness: the serialised text of a dict with two string keys was
\* parsed
C14_Witness ==
    \E r \in Requests :
        /\ Parsed(r)
        /\ hllm[r] = DumpsText(<< [key |-> StrKey("a"), val |-> <<"x">>],
                                  [key |-> StrKey("1"), val |-> <<"y">>] >>)
        /\ hplan[r] # None
        /\ hplan[r]["1"] = <<"y">>

----------------------------------------------------------------------------
(* Claims about the read endpoints *)

\* a read request of one of these kinds was served
Served(ops) == dresp # None /\ dresp.op \in ops

\* the plan ids an endpoint can know: get_workout_plan the indexed plans
\* whose file exists, get_plan the active plans of the store
KnownPlans(op) ==
    IF op = "get_workout_plan"
    THEN IF IndexFile \in DOMAIN files
         THEN { p \in DOMAIN files[IndexFile].plans :
                  PlanFile(files[IndexFile].plans[p].file_path) \in DOMAIN files }
         ELSE {}
    ELSE { table[i].plan_id : i \in { j \in 1..Len(table) : table[j].is_active } }

\* C15: GET /plans/{plan_id} answers 200 with the plan when the plan_id is
\* known and 404 when it is not.
C15_KnownOr404 ==
    Served({"get_workout_plan", "get_plan"}) =>
        IF dresp.plan_id \in KnownPlans(dresp.op)
        THEN dresp.status = 200
        ELSE dresp.status = 404

\* the plan_data the catalog file holds for a plan id
CatalogData(pid) ==
    LET json_plans == files[CatalogFile]
        at == CHOOSE i \in 1..Len(json_plans) : json_plans[i].plan_id = pid
    IN  json_plans[at].plan_data

\* the plan ids of the catalog file, none when the file is missing
CatalogIds ==
    IF CatalogFile \in DOMAIN files
    THEN { files[CatalogFile][i].plan_id : i \in 1..Len(files[CatalogFile]) }
    ELSE {}

\* C16: a discover request served while the store is unreachable succeeds,
\* and every plan it returns is a plan of the catalog file, with the
\* catalog's content, tagged "json".
C16_UnreachableStoreServesCatalog ==
    Served({"discover"}) /\ ~dresp.reached =>
        /\ dresp.status = 200
        /\ \A pid \in DOMAIN dresp.plans :
              /\ dresp.plans[pid].source = "json"
              /\ pid \in CatalogIds
              /\ dresp.plans[pid].overview = CatalogData(pid).overview

\* C16 witness: the store holds an active plan p1 and is unreachable; the
\* answer holds the catalog's p1 and p2
C16_Witness ==
    /\ Served({"discover"})
    /\ ~dresp.reached
    /\ \E i \in 1..Len(table) : table[i].plan_id = "p1" /\ table[i].is_active
    /\ DOMAIN dresp.plans = {"p1", "p2", "p3"}
    /\ dresp.plans["p1"].source = "json"

\* the active rows of the store that hold a plan id
ActiveRows(pid) ==
    { i \in 1..Len(table) : table[i].plan_id = pid /\ table[i].is_active }

\* the plan ids with an active row
ActiveIds == { table[i].plan_id : i \in { j \in 1..Len(table) : table[j].is_active } }

\* whether a metadata mapping matches the filters of the served request
Matches(metadata) ==
    /\ dresp.category # "" =>
          "category" \in DOMAIN metadata /\ metadata.category = dresp.category
    /\ dresp.difficulty # "" =>
          "difficulty" \in DOMAIN metadata /\ metadata.difficulty = dresp.difficulty
    /\ dresp.plan_type # "" =>
          "type" \in DOMAIN metadata /\ metadata.type = dresp.plan_type

\* C17: a discover request served by a reachable store returns plans of the
\* union of the active store plans and the catalog plans; a plan id the
\* store holds comes from the store (source "database"), any other from the
\* catalog; every returned plan matches every supplied filter; at most
\* `limit` plans are returned; and a plan of the union is left out only when
\* it (for a store plan: one of its active rows) does not match or the limit
\* is reached.
C17_DiscoverUnion ==
    Served({"discover"}) /\ dresp.reached =>
        /\ DOMAIN dresp.plans \subseteq ActiveIds \cup CatalogIds
        /\ \A pid \in DOMAIN dresp.plans :
              /\ Matches(dresp.plans[pid].metadata)
              /\ IF pid \in ActiveIds
                 THEN /\ dresp.plans[pid].source = "database"
                      /\ \E i \in ActiveRows(pid) :
                            dresp.plans[pid].overview = table[i].plan_data.overview
                      /\ \E i \in ActiveRows(pid) :
                            dresp.plans[pid].metadata = table[i].metadata
                 ELSE /\ dresp.plans[pid].source = "json"
                      /\ dresp.plans[pid].overview = CatalogData(pid).overview
        /\ Cardinality(DOMAIN dresp.plans) <= dresp.limit
        /\ \A pid \in (ActiveIds \cup CatalogIds) \ DOMAIN dresp.plans :
              \/ Cardinality(DOMAIN dresp.plans) = dresp.limit
              \/ IF pid \in ActiveIds
                 THEN \E i \in ActiveRows(pid) : ~Matches(table[i].metadata)
                 ELSE ~Matches(JsonPlan(<< >>).metadata)

----------------------------------------------------------------------------
(* Claims about a failed write to the store *)

\* the plan of a request was generated and its insert into the store failed
StoreWriteFailed(r) ==
    /\ supabase
    /\ hplan[r] # None
    /\ hrow[r] = 0
    /\ hpc[r] \in {"saving", "done"}

\* C18: a generation request whose write to the store failed is answered
\* 200 with the generated plan, a backup file holds that plan, and neither
\* the plan nor the answer carries a database_id.
C18_StoreFailureSwallowed ==
    \A r \in Requests :
        Answered(r) /\ StoreWriteFailed(r) =>
            /\ hresp[r].status = 200
            /\ hresp[r].plan = hplan[r]
            /\ BackupName(hplan[r]) \in DOMAIN files
            /\ "database_id" \notin DOMAIN hresp[r].plan
            /\ hresp[r].database_id = ""

----------------------------------------------------------------------------
(* Claims about the rules and the nutrition section of the document *)

\* the texts of a list of rules
RuleTexts(rules) == [i \in 1..Len(rules) |-> rules[i].text]

\* the default pair of rules of _create_global_rules
DefaultRules == CreateGlobalRules(<< >>, << >>)

\* C19: global_rules of a returned document holds the rules the Safety stage
\* produced followed by the rules the Fitness stage produced, and is the
\* default pair only when both stages produced none.
C19_RulesMerged ==
    \A g \in Calls :
        odoc[g] # None =>
            LET safety == osafe[g].safety_recommendations
                fitness == RuleTexts(ofit[g]["global_rules"].list)
            IN  IF safety \o fitness = << >>
                THEN odoc[g].plan.global_rules = DefaultRules
                ELSE RuleTexts(odoc[g].plan.global_rules) = safety \o fitness

\* the fields of the nutrition section that carry one text each
NutritionFields == {"goal", "calories", "protein", "carbohydrate", "fat"}

\* the section _create_nutrition_section builds from a plan without keys
DefaultNutrition == CreateNutritionSection(<< >>)

\* C20: each of goal, calories, protein, carbohydrate and fat in the
\* nutrition section of a returned document is the value the Nutrition stage
\* produced for that field, and the default text only when the stage
\* produced none.
C20_NutritionFromStage ==
    \A g \in Calls :
        odoc[g] # None =>
            \A field \in NutritionFields :
                odoc[g].plan.nutrition[field] =
                    IF field \in DOMAIN onut[g]
                    THEN onut[g][field]
                    ELSE DefaultNutrition[field]

----------------------------------------------------------------------------
(* Claims about the days of the document *)

\* the day _create_days_structure falls back to (lines 431-440)
FallbackDays == CreateDaysStructure(<< >>)

\* the days each recognised shape of the Fitness output yields when it is
\* read on its own: the "days" mapping, the day-named top-level keys, the
\* "exercises" mapping
ShapeDays(fitness_plan) ==
    { IF "days" \in DOMAIN fitness_plan /\ IsDict(fitness_plan["days"])
      THEN FormatPairs(fitness_plan["days"].dict, TRUE) ELSE << >>,
      IF OrganizedKeys \cap DOMAIN fitness_plan # {}
      THEN [d \in { k \in DOMAIN fitness_plan :
                      /\ IsList(fitness_plan[k])
                      /\ fitness_plan[k].list # << >> } |->
               FormatDay(fitness_plan[d].list)]
      ELSE << >>,
      IF "exercises" \in DOMAIN fitness_plan /\ IsDict(fitness_plan["exercises"])
      THEN FormatPairs(fitness_plan["exercises"].dict, FALSE) ELSE << >> }

----------------------------------------------------------------------------
(* Claims about the data files and the table across the whole service *)

\* the bundled data files among the files: the catalog, the index and the
\* plan files the index names
Bundled(f) ==
    LET names == {CatalogFile, IndexFile}
                 \cup { PlanFile(p \o ".json") : p \in {"p1", "p2", "p3"} }
    IN  [n \in names \cap DOMAIN f |-> f[n]]

\* C22: no step of any operation (generation, store, update, deactivate,
\* delete, discover, a fallback read) changes the bundled catalog or the
\* other bundled data files, whether or not the store is reached.
C22_CatalogReadOnly == [][Bundled(files') = Bundled(files)]_vars

\* C22 witness: next to a catalog, a generation wrote its row and its backup
\* file, the adapter deleted a plan it had stored, and a discover request
\* that did not reach the store was served from the catalog.
C22_Witness ==
    /\ CatalogFile \in DOMAIN files
    /\ files[CatalogFile] # << >>
    /\ \E r \in Requests :
          /\ hpc[r] = "done"
          /\ hrow[r] # 0
          /\ BackupName(hplan[r]) \in DOMAIN files
    /\ lastOp.op = "delete"
    /\ dresp # None
    /\ dresp.op = "discover"
    /\ ~dresp.reached
    /\ dresp.ids # << >>

\* C23: while no integrated planner is available, POST /api/v1/plans/generate
\* and GET /api/v1/plans/user/{user_id} are answered 503 with the detail
\* "Integrated planner not available".
C23_NoPlanner503 ==
    planner = "none" =>
        /\ \A r \in Requests :
              hpc[r] = "done" =>
                 /\ hresp[r].status = 503
                 /\ hresp[r].cause = "Integrated planner not available"
        /\ (dresp # None /\ dresp.op = "get_user_plans") =>
                 /\ dresp.status = 503
                 /\ dresp.detail = "Integrated planner not available"

\* C24: every key of the days of a returned document is a training day of
\* the Fitness stage's plan with that day's exercises under it; global_rules
\* and safety_considerations are no days.
C24_DaysAreTrainingDays ==
    \A g \in Calls :
        (opc[g] = "done" /\ odoc[g] # None) =>
            LET organized == OrganizeByDays(oreq[g].goals)
                days == odoc[g].plan.days
            IN  /\ \A d \in DOMAIN days :
                      \E i \in 1..Len(organized) :
                          /\ organized[i].day = d
                          /\ days[d] = FormatDay(organized[i].exercises)
                /\ "global_rules" \notin DOMAIN days
                /\ "safety_considerations" \notin DOMAIN days

----------------------------------------------------------------------------
(* Claims about the safety outcome *)

\* b is a with one more constraint, at any place
OneMore(a, b) ==
    /\ Len(b) = Len(a) + 1
    /\ \E k \in 1..Len(b) :
          a = [i \in 1..Len(a) |-> IF i < k THEN b[i] ELSE b[i + 1]]

\* low < moderate < high, low_risk < moderate_risk < requires_medical_clearance
Rank(rating) ==
    CASE rating \in {"low", "low_risk"} -> 1
      [] rating \in {"moderate", "moderate_risk"} -> 2
      [] rating \in {"high", "requires_medical_clearance"} -> 3

\* two calls whose safety stage returned for the same plans, the second
\* with one more constraint than the first
OneMoreConstraint(g, h) ==
    /\ osafe[g] # None /\ osafe[h] # None
    /\ ofit[g] = ofit[h] /\ onut[g] = onut[h] /\ omot[g] = omot[h]
    /\ OneMore(oreq[g].constraints, oreq[h].constraints)

\* C25: for the same fitness, nutrition and motivation plans, one more
\* constraint never lowers the risk score, the risk level or overall_safety.
C25_MoreConstraintsNeverSafer ==
    \A g, h \in Calls :
        OneMoreConstraint(g, h) =>
            /\ osafe[g].risk_assessment.risk_score
                  <= osafe[h].risk_assessment.risk_score
            /\ Rank(osafe[g].risk_assessment.risk_level)
                  <= Rank(osafe[h].risk_assessment.risk_level)
            /\ Rank(osafe[g].overall_safety) <= Rank(osafe[h].overall_safety)

\* C25 witness: with one more constraint the rating of the same plans rose
\* from low_risk to moderate_risk, and the added constraint flagged an
\* exercise of the plan.
C25_Witness ==
    \E g, h \in Calls :
        /\ OneMoreConstraint(g, h)
        /\ oreq[g].constraints # << >>
        /\ osafe[g].overall_safety = "low_risk"
        /\ osafe[h].overall_safety = "moderate_risk"
        /\ Len(osafe[g].contraindications) < Len(osafe[h].contraindications)

\* C26: a get_plan of the adapter for the id of a plan that the generation
\* path stored returns the generated plan as a mapping, as it does for a
\* plan that store_plan stored.
C26_GeneratedPlanReadable ==
    \A r \in Requests :
        (/\ hrow[r] # 0
         /\ lastOp.op = "get" /\ lastOp.ok
         /\ lastOp.pid = hplan[r]["plan_id"][1]) =>
            /\ ~IsJsonText(lastOp.result)
            /\ \A k \in DOMAIN hplan[r] \ {"database_id"} :
                  k \in DOMAIN lastOp.result /\ lastOp.result[k] = hplan[r][k]

----------------------------------------------------------------------------
(* Claims about the identifiers of generated plans *)

\* C27: two distinct generation requests that were both answered with a plan
\* got different plan_ids, and the backup file of each still holds its own
\* plan.
C27_DistinctPlanIds ==
    \A r1, r2 \in Requests :
        (r1 # r2 /\ Succeeded(r1) /\ Succeeded(r2)) =>
            /\ hresp[r1].plan_id # hresp[r2].plan_id
            /\ BackupName(hresp[r1].plan) \in DOMAIN files
            /\ files[BackupName(hresp[r1].plan)] = hresp[r1].plan

----------------------------------------------------------------------------
(* Claims about the regeneration of a user's plan *)

\* the rows of a sequence
RowsIn(rows) == { rows[i] : i \in 1..Len(rows) }

\* C28: when a regeneration request was answered with an error, the rows the
\* user had when the request arrived are still stored.
C28_ErrorKeepsOldPlan ==
    \A q \in RegenRequests :
        (gpc[q] = "done" /\ gresp[q] # 200) =>
            (gold[q] # << >> => RowsIn(gold[q]) \subseteq RowsIn(uplan[greq[q]]))

----------------------------------------------------------------------------
(* Claims about authentication *)

\* C29: verify_token returns user data, and get_current_user a user, only
\* for a token that sign-up or sign-in issued or that the auth provider
\* validates; a self-made token is rejected.
C29_OnlyIssuedTokens ==
    (aresp # None /\ aresp.op = "current_user") =>
        ((aresp.token_data # None \/ aresp.user # None) =>
            (aresp.token \in issued \/ ProviderValid(aresp.token)))

\* C30: POST /signin answers with an access token only when the auth
\* provider accepted the email and the password.
C30_SessionOnlyWhenAccepted ==
    (aresp # None /\ aresp.op = "signin") =>
        ((aresp.status = 200 \/ aresp.access_token # None) => aresp.accepted)

====
